---- MODULE Spec2Model ----
(***************************************************************************)
(* A model of the conjoint-analysis backend (conjoint-backend/app.py and   *)
(* conjoint-backend/estimate_from_survey_cli.py).                          *)
(*                                                                         *)
(* Three components are modelled, each as a state machine of its own with  *)
(* its own specification:                                                  *)
(*   SpecDesign  build_design_matrix / effect_code                         *)
(*   SpecSim     simulate, scenario_utilities, softmax and                 *)
(*               project_market_shares_with_new_product                    *)
(*   SpecParse   parse_survey_export_to_long                               *)
(*                                                                         *)
(* Conventions.  A Python str is a sequence of one-character strings, so   *)
(* that formatting (f"{name}__{level}") and stripping are computed.  A     *)
(* cell of a pandas table is NaN or Str(s).  Python None is None.  The     *)
(* floats 1.0, 0.0 and -1.0 of the design matrix are the integers 1, 0    *)
(* and -1; utilities are integers.                                         *)
(***************************************************************************)
EXTENDS Integers, Sequences, FiniteSets, TLC

VARIABLES
    \* ---- build_design_matrix
    attributes,     \* the list of attribute definitions (argument)
    df,             \* the long table: column name -> series of cells (argument)
    dm_i,           \* position of the loop of build_design_matrix (1-based)
    X_parts,        \* the blocks appended so far
    X,              \* the returned matrix, or None
    dm_pc,          \* "idle", "loop", "done", "error"
    \* ---- simulate, scenario_utilities, project_market_shares_with_new_product
    req,            \* the SimulateRequest, or the arguments of a direct call
    sim_idx,        \* position of the validation loop of simulate (1-based)
    u,              \* the utilities computed by scenario_utilities, or None
    shares,         \* the shares computed, or None
    response,       \* what the call returned, or None
    sim_pc,         \* "idle", "validate", "rule", "call_utilities",
                    \* "call_project", "done", "error"
    \* ---- parse_survey_export_to_long
    df_wide,            \* the wide table: its columns and its number of rows
    resp_idx,           \* the row of the outer loop (0-based, as df.iterrows())
    task_num,           \* the task of the inner loop
    chosen_alt_raw,     \* the choice cell read last, or None
    include_none_option,
    long_data,          \* the rows appended so far
    task_choice,        \* chosen_alt of every task whose rows were appended
    parse_pc,           \* "idle", "start", "loop", "done", "error"
    \* ---- parse_survey_export_to_long: the attribute values of the rows and
    \* ---- the attribute schema
    attributes_from_design, \* None or the list of attribute definitions passed in
    alt_slots,          \* per alternative row: its brand and its slot's cells
    slot_i,             \* the alternative row being assembled
    alt_attrs,          \* per assembled row: its attribute columns (name -> level)
    attributes_seen,
    attributes_schema,  \* None or Some(list of attribute definitions)
    slot_pc,            \* "idle", "rows", "done"
    \* ---- the estimation calls: estimate_from_two_sheets,
    \* ---- estimate_from_survey_export, _fit_mnlogit
    est_req,            \* None or the call: its flow and its prepared inputs
    est_X,              \* None or Some(columns of the design matrix)
    fit_attempts,       \* the model.fit calls made, in order
    est_res,            \* None or Some(result of the fit that returned)
    est_response,       \* None or Some(payload returned)
    est_error,          \* None or Some(error raised to the caller)
    est_pc,             \* "idle", "prepare", "newton", "bfgs", "extract", "done", "error"
    \* ---- parse_definitions_sheet
    df_defs,            \* None or the definitions sheet: its columns and rows
    defs_i,             \* the row of the loop
    defs_attributes,    \* the attribute definitions appended so far
    defs_error,         \* None or Some(the ValueError raised)
    defs_pc,            \* "idle", "columns", "rows", "done", "error"
    \* ---- normalize_market_shares and calculate_market_impact
    ms_shares,          \* the share vector passed to normalize_market_shares
    ms_projected,       \* the projected shares passed to calculate_market_impact
    ms_normalized,      \* None or Some(normalize_market_shares(shares))
    ms_renormalized,    \* None or Some(normalize_market_shares of that)
    ms_impact,          \* None or Some(result of calculate_market_impact)
    ms_pc,               \* "idle", "normalize", "renormalize", "impact", "done", "error"
    \* ---- _transform_flat_attributes
    tf_flat,            \* flat_attributes: the flat per-level records
    tf_short_names,     \* attribute_short_names
    tf_grouped,         \* grouped: attribute number -> bucket
    tf_idx,             \* idx of "for idx, attr_no in enumerate(sorted(...))"
    tf_name,            \* None or Some([base, name, attempt]) of the collision loop
    tf_used_names,      \* used_names
    tf_result,          \* result: the grouped definitions appended so far
    tf_error,           \* None or Some(exception raised)
    tf_pc,               \* "idle", "group", "name", "collide", "done", "error"
    \* ---- analyze_scenarios
    an_req,             \* the ScenarioAnalysisRequest of the call
    an_original,        \* original_shares_normalized, or None
    an_idx,             \* position of the loop over req.new_scenarios (1-based)
    an_projected,       \* the projected share vectors, one per scenario done
    an_impact,          \* market_impact; None is the empty dict
    an_response,        \* the response of the call, or None
    an_clock,           \* the instant datetime.now() last returned
    an_last,            \* the preceding call of the same request and its response
    an_pc               \* "idle", "start", "loop", "return", "done", "error"

dm_vars == <<attributes, df, dm_i, X_parts, X, dm_pc>>
sim_vars == <<req, sim_idx, u, shares, response, sim_pc>>
parse_vars == <<df_wide, resp_idx, task_num, chosen_alt_raw, include_none_option,
                long_data, task_choice, parse_pc>>

slot_vars == <<attributes_from_design, alt_slots, slot_i, alt_attrs, attributes_seen,
               attributes_schema, slot_pc>>

est_vars == <<est_req, est_X, fit_attempts, est_res, est_response, est_error, est_pc>>

defs_vars == <<df_defs, defs_i, defs_attributes, defs_error, defs_pc>>

ms_vars == <<ms_shares, ms_projected, ms_normalized, ms_renormalized, ms_impact, ms_pc>>

tf_vars == <<tf_flat, tf_short_names, tf_grouped, tf_idx, tf_name, tf_used_names, tf_result, tf_error, tf_pc>>

an_vars == <<an_req, an_original, an_idx, an_projected, an_impact, an_response, an_clock, an_last, an_pc>>

vars == <<dm_vars, sim_vars, parse_vars, slot_vars, est_vars, defs_vars, ms_vars, tf_vars, an_vars>>

----------------------------------------------------------------------------
(* Values *)

None == [kind |-> "none"]
NaN == [kind |-> "nan"]
Str(s) == [kind |-> "str", s |-> s]
\* A value that may be None: None, or Some(x) holding x in its field v.
Some(x) == [kind |-> "some", v |-> x]

Range(f) == {f[i] : i \in DOMAIN f}

\* A component that is not called: each specification runs one component
\* and leaves the others idle.
IdleDesign ==
    /\ attributes = <<>>
    /\ df = <<>>
    /\ dm_i = 1
    /\ X_parts = <<>>
    /\ X = None
    /\ dm_pc = "idle"

IdleSim ==
    /\ req = None
    /\ sim_idx = 1
    /\ u = None
    /\ shares = None
    /\ response = None
    /\ sim_pc = "idle"

IdleParse ==
    /\ df_wide = None
    /\ resp_idx = 0
    /\ task_num = 1
    /\ chosen_alt_raw = None
    /\ include_none_option = FALSE
    /\ long_data = <<>>
    /\ task_choice = <<>>
    /\ parse_pc = "idle"

IdleSlots ==
    /\ attributes_from_design = None
    /\ alt_slots = <<>>
    /\ slot_i = 1
    /\ alt_attrs = <<>>
    /\ attributes_seen = {}
    /\ attributes_schema = None
    /\ slot_pc = "idle"

IdleEstimate ==
    /\ est_req = None
    /\ est_X = None
    /\ fit_attempts = <<>>
    /\ est_res = None
    /\ est_response = None
    /\ est_error = None
    /\ est_pc = "idle"

IdleDefs ==
    /\ df_defs = None
    /\ defs_i = 1
    /\ defs_attributes = <<>>
    /\ defs_error = None
    /\ defs_pc = "idle"

IdleMarket ==
    /\ ms_shares = <<>>
    /\ ms_projected = <<>>
    /\ ms_normalized = None
    /\ ms_renormalized = None
    /\ ms_impact = None
    /\ ms_pc = "idle"

IdleTransform ==
    /\ tf_flat = <<>>
    /\ tf_short_names = <<>>
    /\ tf_grouped = <<>>
    /\ tf_idx = 0
    /\ tf_name = None
    /\ tf_used_names = {}
    /\ tf_result = <<>>
    /\ tf_error = None
    /\ tf_pc = "idle"

IdleAnalyze ==
    /\ an_req = None
    /\ an_original = None
    /\ an_idx = 0
    /\ an_projected = <<>>
    /\ an_impact = None
    /\ an_response = None
    /\ an_clock = 0
    /\ an_last = None
    /\ an_pc = "idle"

\* The variables each component leaves alone.
dm_others == <<sim_vars, parse_vars, slot_vars, est_vars, defs_vars, ms_vars, tf_vars, an_vars>>
sim_others == <<dm_vars, parse_vars, slot_vars, est_vars, defs_vars, ms_vars, tf_vars, an_vars>>
parse_others == <<dm_vars, sim_vars, slot_vars, est_vars, defs_vars, ms_vars, tf_vars, an_vars>>
slot_others == <<dm_vars, sim_vars, parse_vars, est_vars, defs_vars, ms_vars, tf_vars, an_vars>>
est_others == <<dm_vars, sim_vars, parse_vars, slot_vars, defs_vars, ms_vars, tf_vars, an_vars>>
defs_others == <<dm_vars, sim_vars, parse_vars, slot_vars, est_vars, ms_vars, tf_vars, an_vars>>
ms_others == <<dm_vars, sim_vars, parse_vars, slot_vars, est_vars, defs_vars, tf_vars, an_vars>>
tf_others == <<dm_vars, sim_vars, parse_vars, slot_vars, est_vars, defs_vars, ms_vars, an_vars>>
an_others == <<dm_vars, sim_vars, parse_vars, slot_vars, est_vars, defs_vars, ms_vars, tf_vars>>

RECURSIVE Concat(_)
\* Concatenation of a sequence of sequences.
Concat(ss) == IF Len(ss) = 0 THEN <<>> ELSE Head(ss) \o Concat(Tail(ss))

\* All sequences without repetition over the set S.
InjSeqs(S) ==
    UNION {{f \in [1..n -> S] : \A i, j \in 1..n : i # j => f[i] # f[j]} : n \in 0..Cardinality(S)}

----------------------------------------------------------------------------
(* effect_code and build_design_matrix *)

\* str(x) of a table cell: a missing value prints as "nan".
astype_str(cell) == IF cell.kind = "nan" THEN <<"n", "a", "n">> ELSE cell.s

\* f"{series.name}__{c}"
column_name(name, c) == name \o <<"_", "_">> \o c

\* reference = levels[-1] raises IndexError on an empty list.
effect_code_raises(levels, reference) == reference = None /\ Len(levels) = 0

\* The first level as the default reference.
resolved_reference_first(levels, reference) ==
    IF reference = None THEN levels[1] ELSE reference.s

\* The reference level effect_code works with.
resolved_reference(levels, reference) ==
    IF reference = None THEN levels[Len(levels)] ELSE reference.s

\* cats = [lvl for lvl in levels if lvl != reference]
cats_of(levels, ref) == SelectSeq(levels, LAMBDA lvl : lvl # ref)

\* effect_row without the final "out.loc[ref_mask, :] = -1.0".
effect_row_no_ref_mask(value, cats, ref) ==
    [j \in 1..Len(cats) |-> IF value = cats[j] THEN 1 ELSE 0]

\* One row of the block: zeros, then 1.0 in the column of the row's level,
\* then -1.0 in every column when the row holds the reference.
effect_row(value, cats, ref) ==
    IF value = ref
    THEN [j \in 1..Len(cats) |-> -1]
    ELSE [j \in 1..Len(cats) |-> IF value = cats[j] THEN 1 ELSE 0]

\* effect_code without "series.where(series.isin(levels), other=reference)".
effect_code_no_coercion(series, name, levels, reference) ==
    LET ref == resolved_reference(levels, reference)
        s1 == [i \in DOMAIN series |-> astype_str(series[i])]
        cats == cats_of(levels, ref)
    IN  [columns |-> [j \in 1..Len(cats) |-> column_name(name, cats[j])],
         rows |-> [i \in DOMAIN s1 |-> effect_row(s1[i], cats, ref)]]

\* effect_code(series, levels, reference); name is series.name.
effect_code(series, name, levels, reference) ==
    LET ref == resolved_reference(levels, reference)
        s1 == [i \in DOMAIN series |-> astype_str(series[i])]
        s2 == [i \in DOMAIN s1 |-> IF s1[i] \in Range(levels) THEN s1[i] ELSE ref]
        cats == cats_of(levels, ref)
    IN  [columns |-> [j \in 1..Len(cats) |-> column_name(name, cats[j])],
         rows |-> [i \in DOMAIN s2 |-> effect_row(s2[i], cats, ref)]]

\* pd.concat(X_parts, axis=1): the columns and the rows of the blocks side by side.
concat_parts(parts) ==
    [columns |-> Concat([k \in DOMAIN parts |-> parts[k].columns]),
     rows |-> [i \in DOMAIN parts[1].rows |-> Concat([k \in DOMAIN parts |-> parts[k].rows[i]])]]

\* add_constant with prepend=False: the constant after the other columns.
add_constant_appended(M) ==
    [columns |-> M.columns \o << <<"c", "o", "n", "s", "t">> >>,
     rows |-> [i \in DOMAIN M.rows |-> M.rows[i] \o <<1>>]]

\* sm.add_constant(X, has_constant="add"): statsmodels' default is prepend=True,
\* the column is named "const".
add_constant(M) ==
    [columns |-> << <<"c", "o", "n", "s", "t">> >> \o M.columns,
     rows |-> [i \in DOMAIN M.rows |-> <<1>> \o M.rows[i]]]

----------------------------------------------------------------------------
(* Inputs of the design-matrix builder *)

\* The longest series the model builds a matrix for.
MaxRows == 2

NameP == <<"P">>
NameB == <<"B">>
LevelsP == {<<"A">>, <<"B">>, <<"C">>}
LevelsB == {<<"X">>, <<"Y">>}
Unknown == <<"Z">>

\* Attribute definitions as the resolvers emit them: distinct levels, the
\* reference unset or one of the levels.
AttrDefs(name, L, minLen) ==
    {[name |-> name, levels |-> ls, reference |-> r] :
        <<ls, r>> \in {p \in InjSeqs(L) \X ({None} \cup {Str(l) : l \in L}) :
                          /\ Len(p[1]) >= minLen
                          /\ p[2] # None => p[2].s \in Range(p[1])}}

AttrLists ==
    LET P == AttrDefs(NameP, LevelsP, 0)
        B == AttrDefs(NameB, LevelsB, 2)
    IN  {<<>>} \cup {<<p>> : p \in P} \cup {<<b>> : b \in B}
        \cup {<<p, b>> : <<p, b>> \in P \X B} \cup {<<b, p>> : <<b, p>> \in B \X P}

CellsP == {NaN} \cup {Str(l) : l \in LevelsP \cup {Unknown}}
CellsB == {Str(l) : l \in LevelsB}

Series(C) == UNION {[1..n -> C] : n \in 1..MaxRows}

\* Tables with the column P, the column B or both, all columns equally long.
Tables ==
    {t \in [{NameP, NameB} -> Series(CellsP \cup CellsB)] :
        /\ Len(t[NameP]) = Len(t[NameB])
        /\ Range(t[NameP]) \subseteq CellsP
        /\ Range(t[NameB]) \subseteq CellsB}
    \cup [{NameP} -> Series(CellsP)]
    \cup [{NameB} -> Series(CellsB)]

----------------------------------------------------------------------------
(* build_design_matrix, one step per iteration of its loop *)

InitDesign ==
    /\ IdleSim
    /\ IdleParse
    /\ IdleSlots
    /\ IdleEstimate
    /\ IdleDefs
    /\ IdleMarket
    /\ IdleTransform
    /\ IdleAnalyze
    /\ attributes \in AttrLists
    /\ df \in Tables
    /\ dm_i = 1
    /\ X_parts = <<>>
    /\ X = None
    /\ dm_pc = "loop"

\* if name not in df.columns: raise ValueError
BuildMissingColumn ==
    /\ dm_pc = "loop"
    /\ dm_i <= Len(attributes)
    /\ attributes[dm_i].name \notin DOMAIN df
    /\ dm_pc' = "error"
    /\ UNCHANGED <<attributes, df, dm_i, X_parts, X, dm_others>>

\* effect_code raises IndexError (levels[-1] of an empty list)
BuildIndexError ==
    /\ dm_pc = "loop"
    /\ dm_i <= Len(attributes)
    /\ attributes[dm_i].name \in DOMAIN df
    /\ effect_code_raises(attributes[dm_i].levels, attributes[dm_i].reference)
    /\ dm_pc' = "error"
    /\ UNCHANGED <<attributes, df, dm_i, X_parts, X, dm_others>>

\* X_parts.append(effect_code(df[name].astype(str), levels, ref))
BuildAttr ==
    /\ dm_pc = "loop"
    /\ dm_i <= Len(attributes)
    /\ attributes[dm_i].name \in DOMAIN df
    /\ ~effect_code_raises(attributes[dm_i].levels, attributes[dm_i].reference)
    /\ LET attr == attributes[dm_i]
           col == df[attr.name]
           series == [i \in DOMAIN col |-> Str(astype_str(col[i]))]
       IN  X_parts' = Append(X_parts, effect_code(series, attr.name, attr.levels, attr.reference))
    /\ dm_i' = dm_i + 1
    /\ UNCHANGED <<attributes, df, X, dm_pc, dm_others>>

\* pd.concat of an empty list raises ValueError
BuildConcatFails ==
    /\ dm_pc = "loop"
    /\ dm_i > Len(attributes)
    /\ Len(X_parts) = 0
    /\ dm_pc' = "error"
    /\ UNCHANGED <<attributes, df, dm_i, X_parts, X, dm_others>>

\* X = pd.concat(X_parts, axis=1); X = sm.add_constant(X, has_constant="add"); return X
BuildReturn ==
    /\ dm_pc = "loop"
    /\ dm_i > Len(attributes)
    /\ Len(X_parts) > 0
    /\ X' = add_constant(concat_parts(X_parts))
    /\ dm_pc' = "done"
    /\ UNCHANGED <<attributes, df, dm_i, X_parts, dm_others>>

NextDesign ==
    \/ BuildMissingColumn
    \/ BuildIndexError
    \/ BuildAttr
    \/ BuildConcatFails
    \/ BuildReturn

SpecDesign == InitDesign /\ [][NextDesign]_vars

----------------------------------------------------------------------------
(* Claims about the design matrix *)

OneHot(row) ==
    \E j \in DOMAIN row : row[j] = 1 /\ \A k \in DOMAIN row : k # j => row[k] = 0

AllMinusOne(row) == \A j \in DOMAIN row : row[j] = -1

NotALevel(k, i) ==
    LET cell == df[attributes[k].name][i]
        text == IF cell = NaN THEN <<"n", "a", "n">> ELSE cell.s
    IN  \A j \in DOMAIN attributes[k].levels : attributes[k].levels[j] # text

\* C2: an observed value that is not one of the attribute's levels (an
\* unrecognized string or a missing value) is treated as the reference level:
\* its row has -1 in every column of the attribute's block, and no error is
\* raised for it (the builder fails only for a missing column, an empty level
\* list or an empty attribute list).
C2_UnknownValueIsReference ==
    /\ \A k \in DOMAIN X_parts : \A i \in DOMAIN X_parts[k].rows :
          NotALevel(k, i) => AllMinusOne(X_parts[k].rows[i])
    /\ dm_pc = "error" =>
          \/ Len(attributes) = 0
          \/ /\ dm_i <= Len(attributes)
             /\ \/ attributes[dm_i].name \notin DOMAIN df
                \/ Len(attributes[dm_i].levels) = 0

\* A returned matrix with a two-column block in which a missing value and an
\* unrecognized string were both coded as the reference.
C2_Witness ==
    /\ dm_pc = "done"
    /\ \E k \in DOMAIN X_parts :
          /\ Len(X_parts[k].columns) = 2
          /\ \E i, j \in DOMAIN X_parts[k].rows :
                /\ df[attributes[k].name][i] = NaN
                /\ df[attributes[k].name][j] = Str(Unknown)
                /\ AllMinusOne(X_parts[k].rows[i])
                /\ AllMinusOne(X_parts[k].rows[j])

\* The attribute columns the claim names: per attribute in definition order,
\* {attribute}__{level} for each non-reference level in level order.
ExpectedAttributeColumns ==
    Concat([k \in DOMAIN attributes |->
        LET a == attributes[k]
            r == IF a.reference = None THEN a.levels[Len(a.levels)] ELSE a.reference.s
            nonref == SelectSeq(a.levels, LAMBDA l : l # r)
        IN  [j \in 1..Len(nonref) |-> a.name \o <<"_", "_">> \o nonref[j]]])

ConstName == <<"c", "o", "n", "s", "t">>

\* C3 as stated: the attribute columns in order, then the constant column last.
C3_ConstantIsLastColumn ==
    dm_pc = "done" =>
        /\ X.columns = ExpectedAttributeColumns \o <<ConstName>>
        /\ \A i \in DOMAIN X.rows : X.rows[i][Len(X.columns)] = 1

\* C3 as amended: the constant column of 1.0 (named const) is the first
\* column, followed, for each attribute in attribute-definition order, by one
\* column {attribute}__{level} per non-reference level in level order.
C3_ConstantIsFirstColumn ==
    dm_pc = "done" =>
        /\ X.columns = <<ConstName>> \o ExpectedAttributeColumns
        /\ \A i \in DOMAIN X.rows :
              /\ Len(X.rows[i]) = Len(X.columns)
              /\ X.rows[i][1] = 1

\* A returned matrix of two attributes with three attribute columns.
C3_Witness ==
    /\ dm_pc = "done"
    /\ Len(attributes) = 2
    /\ Len(X.columns) = 4
    /\ Len(X.rows) = 2

----------------------------------------------------------------------------
(* scenario_utilities, softmax, simulate, project_market_shares_with_new_product *)

\* str.strip(): leading and trailing whitespace removed.
RECURSIVE lstrip(_)
lstrip(s) == IF Len(s) > 0 /\ Head(s) = " " THEN lstrip(Tail(s)) ELSE s

RECURSIVE rstrip(_)
rstrip(s) == IF Len(s) > 0 /\ s[Len(s)] = " " THEN rstrip(SubSeq(s, 1, Len(s) - 1)) ELSE s

strip(s) == rstrip(lstrip(s))

\* sum(u_map.get(k, 0.0) for k in keys)
RECURSIVE sum_map(_, _)
sum_map(u_map, keys) ==
    IF keys = {} THEN 0
    ELSE LET k == CHOOSE x \in keys : TRUE
         IN  u_map[k] + sum_map(u_map, keys \ {k})

\* The body of "for attr, lvl in s.items()" with a sign slip: the reference
\* level adds the sum of the explicit coefficients instead of subtracting it.
attr_utility_added(utilities, attr, lvl) ==
    LET u_map == IF attr \in DOMAIN utilities THEN utilities[attr] ELSE <<>>
        keys == DOMAIN u_map
    IN  IF lvl \in keys THEN u_map[lvl] ELSE sum_map(u_map, keys)

\* The body of "for attr, lvl in s.items()": what one attribute adds to total.
attr_utility(utilities, attr, lvl) ==
    LET u_map == IF attr \in DOMAIN utilities THEN utilities[attr] ELSE <<>>
        keys == DOMAIN u_map
    IN  IF lvl \in keys THEN u_map[lvl] ELSE 0 - sum_map(u_map, keys)

\* total = intercept; for attr, lvl in s.items(): total += ... (or -= ...)
RECURSIVE scenario_total(_, _, _, _)
scenario_total(s, todo, utilities, total) ==
    IF todo = {} THEN total
    ELSE LET attr == CHOOSE a \in todo : TRUE
         IN  scenario_total(s, todo \ {attr}, utilities,
                            total + attr_utility(utilities, attr, s[attr]))

\* scenario_utilities(scenarios, utilities, intercept)
scenario_utilities(scenarios, utilities, intercept) ==
    [i \in DOMAIN scenarios |->
        scenario_total(scenarios[i], DOMAIN scenarios[i], utilities, intercept)]

\* np.max(x)
RECURSIVE np_max(_)
np_max(x) ==
    IF Len(x) = 1 THEN x[1]
    ELSE LET m == np_max(Tail(x)) IN IF x[1] >= m THEN x[1] ELSE m

\* np.argmax that keeps the last maximum.
RECURSIVE np_argmax_last(_, _, _)
np_argmax_last(x, i, best) ==
    IF i > Len(x) THEN best
    ELSE np_argmax_last(x, i + 1, IF x[i] >= x[best] THEN i ELSE best)

\* np.argmax(x): a scan that keeps the first maximum (positions are 1-based here).
RECURSIVE np_argmax(_, _, _)
np_argmax(x, i, best) ==
    IF i > Len(x) THEN best
    ELSE np_argmax(x, i + 1, IF x[i] > x[best] THEN i ELSE best)

\* [1.0 if i == int(np.argmax(u)) else 0.0 for i in range(len(u))]
\* A share is the fraction num/den.
first_choice_shares(x) ==
    [i \in DOMAIN x |-> IF i = np_argmax(x, 1, 1) THEN [num |-> 1, den |-> 1]
                        ELSE [num |-> 0, den |-> 1]]

\* Floats: np.exp(-d) for d >= 0 in units of 1/ExpScale.  exp(-d) is 0.0 in
\* IEEE double precision when d >= ExpUnderflow; it is positive before.
ExpScale == 1000000
ExpUnderflow == 746
ExpTable == <<367879, 135335, 49787, 18316, 6738, 2479, 912, 335, 123, 45, 17, 6>>

np_exp_neg(d) ==
    IF d = 0 THEN ExpScale
    ELSE IF d >= ExpUnderflow THEN 0
    ELSE IF d <= Len(ExpTable) THEN ExpTable[d]
    ELSE 1

RECURSIVE np_sum(_)
np_sum(x) == IF Len(x) = 0 THEN 0 ELSE x[1] + np_sum(Tail(x))

\* softmax dividing by the largest exponential instead of their sum.
softmax_by_max(x) ==
    LET m == np_max(x)
        ex == [i \in DOMAIN x |-> np_exp_neg(m - x[i])]
    IN  [i \in DOMAIN x |-> [num |-> ex[i], den |-> np_max(ex)]]

\* softmax(x): m = np.max(x); ex = np.exp(x - m); return ex / np.sum(ex)
softmax(x) ==
    LET m == np_max(x)
        ex == [i \in DOMAIN x |-> np_exp_neg(m - x[i])]
    IN  [i \in DOMAIN x |-> [num |-> ex[i], den |-> np_sum(ex)]]

\* missing with the blank test "s[a] == ''" (no strip).
missing_no_strip(attrs, s) == {a \in attrs : a \notin DOMAIN s \/ s[a] = <<>>}

\* missing = [a for a in attrs if a not in s or s[a] is None or str(s[a]).strip() == ""]
missing(attrs, s) == {a \in attrs : a \notin DOMAIN s \/ strip(s[a]) = <<>>}

----------------------------------------------------------------------------
(* Inputs of the simulator *)

\* The longest scenario list of a request.
MaxScenarios == 2
\* The most existing products of a projection.
MaxProducts == 2

Intercepts == {0, 3}
Rules == {"logit", "first_choice", "nearest"}

\* Utility tables: none, P with explicit levels A and B (C is the implicit
\* reference), and P together with B with the explicit level X (Y implicit).
UtilityTables ==
    LET PM == {[l \in {<<"A">>, <<"B">>} |-> IF l = <<"A">> THEN a ELSE b] :
                  <<a, b>> \in {-1, 2, 800} \X {-1, 2}}
        BM == [l \in {<<"X">>} |-> 2]
    IN  {<<>>}
        \cup {[a \in {NameP} |-> pm] : pm \in PM}
        \cup {[a \in {NameP, NameB} |-> IF a = NameP THEN pm ELSE BM] : pm \in PM}

\* The level a scenario may give an attribute; <<>> and <<" ">> are blank.
ScenarioLevels(a) ==
    IF a = NameP THEN {<<>>, <<" ">>, <<"A">>, <<"C">>} ELSE {<<"X">>, <<"Y">>}

\* Scenarios: an attribute may be omitted.
Scenarios ==
    UNION {{s \in [D -> ScenarioLevels(NameP) \cup ScenarioLevels(NameB)] :
               \A a \in D : s[a] \in ScenarioLevels(a)} : D \in SUBSET {NameP, NameB}}

ScenarioLists == UNION {[1..n -> Scenarios] : n \in 0..MaxScenarios}

\* Utilities of existing products (logarithms of shares, or the sentinel -10).
ExistingUtilities == UNION {[1..n -> {-10, -1, 0}] : n \in 0..MaxProducts}

----------------------------------------------------------------------------
(* simulate, and direct calls of scenario_utilities and of
   project_market_shares_with_new_product *)

InitSimulate ==
    /\ req \in [fn : {"simulate"}, intercept : Intercepts, utilities : UtilityTables,
                scenarios : ScenarioLists, rule : Rules]
    /\ sim_pc = "validate"

InitScenarioUtilities ==
    /\ req \in [fn : {"scenario_utilities"}, intercept : Intercepts,
                utilities : UtilityTables, scenarios : ScenarioLists]
    /\ sim_pc = "call_utilities"

InitProject ==
    /\ req \in [fn : {"project"}, existing_utilities : ExistingUtilities,
                new_product_utility : {-1, 0, 2}, rule : Rules]
    /\ sim_pc = "call_project"

InitSim ==
    /\ IdleDesign
    /\ IdleParse
    /\ IdleSlots
    /\ IdleEstimate
    /\ IdleDefs
    /\ IdleMarket
    /\ IdleTransform
    /\ IdleAnalyze
    /\ InitSimulate \/ InitScenarioUtilities \/ InitProject
    /\ sim_idx = 1
    /\ u = None
    /\ shares = None
    /\ response = None

\* for idx, s in enumerate(req.scenarios): nothing is missing in s
SimValidate ==
    /\ sim_pc = "validate"
    /\ sim_idx <= Len(req.scenarios)
    /\ missing(DOMAIN req.utilities, req.scenarios[sim_idx]) = {}
    /\ sim_idx' = sim_idx + 1
    /\ UNCHANGED <<req, u, shares, response, sim_pc, sim_others>>

\* if missing: raise HTTPException(400)
SimRejectScenario ==
    /\ sim_pc = "validate"
    /\ sim_idx <= Len(req.scenarios)
    /\ missing(DOMAIN req.utilities, req.scenarios[sim_idx]) # {}
    /\ sim_pc' = "error"
    /\ UNCHANGED <<req, sim_idx, u, shares, response, sim_others>>

\* u = scenario_utilities(req.scenarios, req.utilities, req.intercept)
SimUtilities ==
    /\ sim_pc = "validate"
    /\ sim_idx > Len(req.scenarios)
    /\ u' = Some(scenario_utilities(req.scenarios, req.utilities, req.intercept))
    /\ sim_pc' = "rule"
    /\ UNCHANGED <<req, sim_idx, shares, response, sim_others>>

\* if req.rule == "first_choice": shares = [...]; return {"utilities": ..., "shares": ...}
\* (with no scenario the comprehension is empty and np.argmax is never called)
SimFirstChoice ==
    /\ sim_pc = "rule"
    /\ req.rule = "first_choice"
    /\ shares' = Some(first_choice_shares(u.v))
    /\ response' = Some([utilities |-> u.v, shares |-> shares'.v])
    /\ sim_pc' = "done"
    /\ UNCHANGED <<req, sim_idx, u, sim_others>>

\* elif req.rule == "logit": shares = softmax(u).tolist(); return ...
SimLogit ==
    /\ sim_pc = "rule"
    /\ req.rule = "logit"
    /\ Len(u.v) > 0
    /\ shares' = Some(softmax(u.v))
    /\ response' = Some([utilities |-> u.v, shares |-> shares'.v])
    /\ sim_pc' = "done"
    /\ UNCHANGED <<req, sim_idx, u, sim_others>>

\* softmax of an empty array: np.max raises ValueError, turned into HTTPException(400)
SimLogitEmpty ==
    /\ sim_pc = "rule"
    /\ req.rule = "logit"
    /\ Len(u.v) = 0
    /\ sim_pc' = "error"
    /\ UNCHANGED <<req, sim_idx, u, shares, response, sim_others>>

\* else: raise HTTPException(400, "Unknown simulation rule")
SimUnknownRule ==
    /\ sim_pc = "rule"
    /\ req.rule \notin {"first_choice", "logit"}
    /\ sim_pc' = "error"
    /\ UNCHANGED <<req, sim_idx, u, shares, response, sim_others>>

\* a direct call of scenario_utilities (as analyze_scenarios makes it)
CallScenarioUtilities ==
    /\ sim_pc = "call_utilities"
    /\ u' = Some(scenario_utilities(req.scenarios, req.utilities, req.intercept))
    /\ response' = u'
    /\ sim_pc' = "done"
    /\ UNCHANGED <<req, sim_idx, shares, sim_others>>

\* all_utilities = existing_utilities + [new_product_utility]
all_utilities == req.existing_utilities \o <<req.new_product_utility>>

\* project_market_shares_with_new_product, rule "logit"
ProjectLogit ==
    /\ sim_pc = "call_project"
    /\ req.rule = "logit"
    /\ shares' = Some(softmax(all_utilities))
    /\ response' = shares'
    /\ sim_pc' = "done"
    /\ UNCHANGED <<req, sim_idx, u, sim_others>>

\* project_market_shares_with_new_product, rule "first_choice"
ProjectFirstChoice ==
    /\ sim_pc = "call_project"
    /\ req.rule = "first_choice"
    /\ shares' = Some(first_choice_shares(all_utilities))
    /\ response' = shares'
    /\ sim_pc' = "done"
    /\ UNCHANGED <<req, sim_idx, u, sim_others>>

\* project_market_shares_with_new_product: raise ValueError("Unknown choice rule")
ProjectUnknownRule ==
    /\ sim_pc = "call_project"
    /\ req.rule \notin {"first_choice", "logit"}
    /\ sim_pc' = "error"
    /\ UNCHANGED <<req, sim_idx, u, shares, response, sim_others>>

NextSim ==
    \/ SimValidate
    \/ SimRejectScenario
    \/ SimUtilities
    \/ SimFirstChoice
    \/ SimLogit
    \/ SimLogitEmpty
    \/ SimUnknownRule
    \/ CallScenarioUtilities
    \/ ProjectLogit
    \/ ProjectFirstChoice
    \/ ProjectUnknownRule

SpecSim == InitSim /\ [][NextSim]_vars

----------------------------------------------------------------------------
(* Claims about the simulator *)

\* The explicit coefficient of level l of attribute a in the request's
\* utility table, 0 when there is none.
Coefficient(a, l) ==
    IF a \in DOMAIN req.utilities /\ l \in DOMAIN req.utilities[a]
    THEN req.utilities[a][l] ELSE 0

HasCoefficient(a, l) == a \in DOMAIN req.utilities /\ l \in DOMAIN req.utilities[a]

\* The sum of the explicit coefficients of attribute a (the levels that can
\* carry a coefficient are A, B and X).
ExplicitSum(a) == Coefficient(a, <<"A">>) + Coefficient(a, <<"B">>) + Coefficient(a, <<"X">>)

\* What attribute a of scenario s contributes according to the claim.
ClaimedTerm(s, a) ==
    IF a \notin DOMAIN s THEN 0
    ELSE IF HasCoefficient(a, s[a]) THEN Coefficient(a, s[a])
    ELSE 0 - ExplicitSum(a)

\* C4: scenario_utilities returns, per scenario, intercept plus, for each
\* attribute of the scenario, the explicit coefficient of the chosen level if
\* it has one and otherwise minus the sum of that attribute's explicit
\* coefficients; so the explicit coefficients of an attribute and its
\* reconstructed reference-level utility sum to 0.
C4_UtilityReconstruction ==
    (req # None /\ req.fn \in {"simulate", "scenario_utilities"} /\ u # None) =>
        /\ Len(u.v) = Len(req.scenarios)
        /\ \A i \in DOMAIN u.v :
              LET s == req.scenarios[i]
              IN  /\ u.v[i] = req.intercept + ClaimedTerm(s, NameP) + ClaimedTerm(s, NameB)
                  /\ \A a \in DOMAIN req.utilities :
                        (DOMAIN s = {a} /\ ~HasCoefficient(a, s[a])) =>
                            (u.v[i] - req.intercept) + ExplicitSum(a) = 0

\* The utilities of (P = A) and (P = C, the reference) under A: 800, B: -1
\* and intercept 3 are 803 and 3 - 799.
C4_Witness ==
    /\ req # None /\ req.fn = "scenario_utilities" /\ u # None
    /\ req.intercept = 3
    /\ NameP \in DOMAIN req.utilities
    /\ req.utilities[NameP][<<"A">>] = 800
    /\ req.utilities[NameP][<<"B">>] = -1
    /\ Len(req.scenarios) = 2
    /\ DOMAIN req.scenarios[1] = {NameP} /\ req.scenarios[1][NameP] = <<"A">>
    /\ DOMAIN req.scenarios[2] = {NameP} /\ req.scenarios[2][NameP] = <<"C">>
    /\ u = Some(<<803, -796>>)

\* Scenario s omits, or leaves blank, an attribute the utility table defines.
Omits(s) ==
    \E a \in DOMAIN req.utilities : a \notin DOMAIN s \/ s[a] \in {<<>>, <<" ">>}

BadRequest ==
    \/ \E i \in DOMAIN req.scenarios : Omits(req.scenarios[i])
    \/ req.rule \notin {"logit", "first_choice"}

\* C5: simulate fails, and returns no utilities or shares, whenever a scenario
\* omits or leaves blank an attribute the utility table defines or the rule
\* is neither "logit" nor "first_choice" (the call goes on until it has
\* failed); every scenario is validated before any utility is computed.
C5_SimulateAllOrNothing ==
    (req # None /\ req.fn = "simulate") =>
        /\ BadRequest => /\ sim_pc # "done"
                         /\ response = None
                         /\ sim_pc # "error" => ENABLED NextSim
        /\ sim_pc = "error" => response = None
        /\ u # None => /\ sim_idx = Len(req.scenarios) + 1
                       /\ \A i \in DOMAIN req.scenarios : ~Omits(req.scenarios[i])

\* simulate failed on its second scenario, which leaves P blank, after the
\* first passed validation; no utility was computed.
C5_Witness ==
    /\ req # None /\ req.fn = "simulate"
    /\ sim_pc = "error"
    /\ Len(req.scenarios) = 2
    /\ sim_idx = 2
    /\ NameP \in DOMAIN req.scenarios[2] /\ req.scenarios[2][NameP] = <<" ">>
    /\ u = None /\ response = None

\* The utility vector the shares are computed from.
UtilityVector == IF req.fn = "project" THEN req.existing_utilities \o <<req.new_product_utility>> ELSE u.v

One == [num |-> 1, den |-> 1]
Zero == [num |-> 0, den |-> 1]

\* C6: under "first_choice" with a non-empty utility vector exactly one share
\* is 1.0, all others are 0.0, and the 1.0 is at the lowest index attaining
\* the maximum utility, in simulate and in
\* project_market_shares_with_new_product.
C6_FirstChoiceFirstMaximum ==
    (req # None /\ req.fn \in {"simulate", "project"} /\ req.rule = "first_choice"
        /\ shares # None /\ Len(UtilityVector) > 0) =>
        /\ Len(shares.v) = Len(UtilityVector)
        /\ \E w \in DOMAIN shares.v :
              /\ shares.v[w] = One
              /\ \A j \in DOMAIN shares.v : j # w => shares.v[j] = Zero
              /\ \A j \in DOMAIN shares.v : UtilityVector[j] <= UtilityVector[w]
              /\ \A j \in DOMAIN shares.v : j < w => UtilityVector[j] < UtilityVector[w]

\* simulate resolved a tie between two scenarios of equal utility for the first.
C6_Witness ==
    /\ req # None /\ req.fn = "simulate" /\ req.rule = "first_choice"
    /\ sim_pc = "done"
    /\ Len(u.v) = 2 /\ u.v[1] = u.v[2]
    /\ shares = Some(<<One, Zero>>)

RECURSIVE SumNum(_)
SumNum(sh) == IF Len(sh) = 0 THEN 0 ELSE sh[1].num + SumNum(Tail(sh))

LogitShares ==
    req # None /\ req.fn \in {"simulate", "project"} /\ req.rule = "logit" /\ shares # None

----------------------------------------------------------------------------
(* parse_survey_export_to_long *)

\* A numeric cell; floats are kept in tenths (Num(25) is 2.5).
Num(n) == [kind |-> "num", tenths |-> n]

\* int(chosen_alt_raw) raises for a string that is no number.
int_raises(cell) == cell.kind = "str"

\* int(x) of a float: truncation toward zero.
int_of(cell) ==
    IF cell.tenths >= 0 THEN cell.tenths \div 10 ELSE 0 - ((0 - cell.tenths) \div 10)

\* choice_cols = [c for c in df.columns if re.match(r'^QC1_\d+$', c)]; n_tasks = len(choice_cols)
n_tasks == Cardinality(df_wide.choice_cols)

\* brand_order = list(brand_columns.keys()); n_alts = len(brand_order)
n_alts == Len(df_wide.brand_order)

\* The rows of "for alt_index, brand in enumerate(brand_order, start=1)": one
\* per brand that has slots for the task (has_slots holds for each of them).
RECURSIVE brand_rows(_, _, _, _)
brand_rows(alt_index, resp_id, task, chosen_alt) ==
    IF alt_index > n_alts THEN <<>>
    ELSE LET brand == df_wide.brand_order[alt_index]
             rest == brand_rows(alt_index + 1, resp_id, task, chosen_alt)
         IN  IF task \notin df_wide.brand_columns[brand] THEN rest
             ELSE << [resp_id |-> resp_id, task_id |-> task, alt_id |-> alt_index,
                      chosen |-> IF alt_index = chosen_alt THEN 1 ELSE 0] >> \o rest

\* The "none" row numbered as the last brand instead of n_alts + 1.
none_rows_as_last_brand(include_none, resp_id, task, chosen_alt) ==
    IF include_none
    THEN << [resp_id |-> resp_id, task_id |-> task, alt_id |-> n_alts,
             chosen |-> IF chosen_alt = n_alts + 1 THEN 1 ELSE 0] >>
    ELSE <<>>

\* if include_none_option: alt_rows_for_task.append(none_alt_data)
none_rows(include_none, resp_id, task, chosen_alt) ==
    IF include_none
    THEN << [resp_id |-> resp_id, task_id |-> task, alt_id |-> n_alts + 1,
             chosen |-> IF chosen_alt = n_alts + 1 THEN 1 ELSE 0] >>
    ELSE <<>>

\* alt_rows_for_task after both loops.
alt_rows_for_task(include_none, resp_id, task, chosen_alt) ==
    brand_rows(1, resp_id, task, chosen_alt) \o none_rows(include_none, resp_id, task, chosen_alt)

----------------------------------------------------------------------------
(* Inputs of the converter *)

\* The most respondent rows of a wide table.
MaxResp == 2

\* The task numbers the columns of a wide table may carry.
Tasks == {1, 2}
\* The brands (alternatives) in the order of their first column.
BrandOrders == {<<>>, <<"A">>, <<"A", "B">>, <<"A", "B", "C">>}

\* Column layouts after the grouping of lines 930-968: the tasks with a choice
\* column QC1_k, and per brand the tasks for which it has a slot with a value
\* column (a brand without any is removed from brand_columns).
WideTables ==
    {[choice_cols |-> K, brand_order |-> bo, brand_columns |-> bc, n_rows |-> n] :
        <<K, bo, bc, n>> \in
            {q \in (SUBSET Tasks) \X BrandOrders \X [{"A", "B", "C"} -> SUBSET Tasks] \X (0..MaxResp) :
                \A b \in {"A", "B", "C"} :
                    IF b \in Range(q[2]) THEN q[3][b] # {} ELSE q[3][b] = {}}}

\* The cells a choice column may hold: missing, text, 0, 1, 2, 2.5, 3, 4, 5.
ChoiceCells == {NaN, Str(<<"x">>)} \cup {Num(n) : n \in {0, 10, 20, 25, 30, 40, 50}}

----------------------------------------------------------------------------
(* parse_survey_export_to_long, one step per task of a respondent.  The
   counters skipped_tasks, skipped_due_to_missing_alts and
   skipped_due_to_choice only feed the log line and are not kept. *)

InitParse ==
    /\ IdleDesign
    /\ IdleSim
    /\ IdleSlots
    /\ IdleEstimate
    /\ IdleDefs
    /\ IdleMarket
    /\ IdleTransform
    /\ IdleAnalyze
    /\ df_wide \in WideTables
    /\ resp_idx = 0
    /\ task_num = 1
    /\ chosen_alt_raw = None
    /\ include_none_option = FALSE
    /\ long_data = <<>>
    /\ task_choice = <<>>
    /\ parse_pc = "start"

\* if n_tasks == 0: raise ValueError("No choice columns found ...")
ParseNoChoiceColumns ==
    /\ parse_pc = "start"
    /\ n_tasks = 0
    /\ parse_pc' = "error"
    /\ UNCHANGED <<df_wide, resp_idx, task_num, chosen_alt_raw, include_none_option,
                   long_data, task_choice, parse_others>>

\* if n_alts == 0: raise ValueError("No attribute columns found ...")
ParseNoAttributeColumns ==
    /\ parse_pc = "start"
    /\ n_tasks > 0
    /\ n_alts = 0
    /\ parse_pc' = "error"
    /\ UNCHANGED <<df_wide, resp_idx, task_num, chosen_alt_raw, include_none_option,
                   long_data, task_choice, parse_others>>

\* the loops begin
ParseBegin ==
    /\ parse_pc = "start"
    /\ n_tasks > 0
    /\ n_alts > 0
    /\ parse_pc' = "loop"
    /\ UNCHANGED <<df_wide, resp_idx, task_num, chosen_alt_raw, include_none_option,
                   long_data, task_choice, parse_others>>

\* An iteration of "for task_num in range(1, n_tasks + 1)" is under way.
InLoop == parse_pc = "loop" /\ resp_idx < df_wide.n_rows /\ task_num <= n_tasks

\* "continue": the next task_num, or the next row with task_num = 1.
NextIteration ==
    IF task_num < n_tasks
    THEN task_num' = task_num + 1 /\ resp_idx' = resp_idx
    ELSE task_num' = 1 /\ resp_idx' = resp_idx + 1

\* if choice_col not in df.columns: continue
TaskNoColumn ==
    /\ InLoop
    /\ task_num \notin df_wide.choice_cols
    /\ NextIteration
    /\ UNCHANGED <<df_wide, chosen_alt_raw, include_none_option, long_data, task_choice,
                   parse_pc, parse_others>>

\* if pd.isna(chosen_alt_raw): continue
TaskChoiceMissing ==
    /\ InLoop
    /\ task_num \in df_wide.choice_cols
    /\ chosen_alt_raw' = NaN
    /\ NextIteration
    /\ UNCHANGED <<df_wide, include_none_option, long_data, task_choice, parse_pc, parse_others>>

\* except (TypeError, ValueError): skipped_tasks += 1; continue
TaskChoiceNotNumeric ==
    /\ InLoop
    /\ task_num \in df_wide.choice_cols
    /\ \E cell \in ChoiceCells :
          /\ cell # NaN
          /\ int_raises(cell)
          /\ chosen_alt_raw' = cell
    /\ NextIteration
    /\ UNCHANGED <<df_wide, include_none_option, long_data, task_choice, parse_pc, parse_others>>

\* if chosen_alt < 1: skipped_tasks += 1; continue
TaskChoiceBelowOne ==
    /\ InLoop
    /\ task_num \in df_wide.choice_cols
    /\ \E cell \in ChoiceCells :
          /\ cell # NaN
          /\ ~int_raises(cell)
          /\ int_of(cell) < 1
          /\ chosen_alt_raw' = cell
    /\ NextIteration
    /\ UNCHANGED <<df_wide, include_none_option, long_data, task_choice, parse_pc, parse_others>>

\* include_none_option left as it was, whatever the choice.
none_option_never_set(chosen_alt) == include_none_option

\* if chosen_alt > n_alts: include_none_option = True
none_option_after(chosen_alt) == include_none_option \/ chosen_alt > n_alts

\* The rows assembled by the iteration under way for a choice of chosen_alt.
task_rows(chosen_alt) ==
    alt_rows_for_task(none_option_after(chosen_alt), resp_idx + 1, task_num, chosen_alt)

\* The choice cell converts to an alternative number chosen_alt >= 1.
ValidChoiceCell(cell) == cell # NaN /\ ~int_raises(cell) /\ int_of(cell) >= 1

\* if len(alt_rows_for_task) < 2: skipped_due_to_missing_alts += 1; continue
TaskTooFewAlternatives ==
    /\ InLoop
    /\ task_num \in df_wide.choice_cols
    /\ \E cell \in ChoiceCells :
          /\ ValidChoiceCell(cell)
          /\ Len(task_rows(int_of(cell))) < 2
          /\ chosen_alt_raw' = cell
          /\ include_none_option' = none_option_after(int_of(cell))
    /\ NextIteration
    /\ UNCHANGED <<df_wide, long_data, task_choice, parse_pc, parse_others>>

\* if chosen_alt > len(alt_rows_for_task): skipped_due_to_choice += 1; continue
TaskInvalidChoice ==
    /\ InLoop
    /\ task_num \in df_wide.choice_cols
    /\ \E cell \in ChoiceCells :
          /\ ValidChoiceCell(cell)
          /\ Len(task_rows(int_of(cell))) >= 2
          /\ int_of(cell) > Len(task_rows(int_of(cell)))
          /\ chosen_alt_raw' = cell
          /\ include_none_option' = none_option_after(int_of(cell))
    /\ NextIteration
    /\ UNCHANGED <<df_wide, long_data, task_choice, parse_pc, parse_others>>

\* long_data.extend(alt_rows_for_task)
TaskAppend ==
    /\ InLoop
    /\ task_num \in df_wide.choice_cols
    /\ \E cell \in ChoiceCells :
          /\ ValidChoiceCell(cell)
          /\ Len(task_rows(int_of(cell))) >= 2
          /\ int_of(cell) <= Len(task_rows(int_of(cell)))
          /\ chosen_alt_raw' = cell
          /\ include_none_option' = none_option_after(int_of(cell))
          /\ long_data' = long_data \o task_rows(int_of(cell))
          /\ task_choice' = (<<resp_idx + 1, task_num>> :> int_of(cell)) @@ task_choice
    /\ NextIteration
    /\ UNCHANGED <<df_wide, parse_pc, parse_others>>

\* if not long_data: raise ValueError("No valid choice data could be constructed ...")
ParseNoValidData ==
    /\ parse_pc = "loop"
    /\ resp_idx >= df_wide.n_rows
    /\ Len(long_data) = 0
    /\ parse_pc' = "error"
    /\ UNCHANGED <<df_wide, resp_idx, task_num, chosen_alt_raw, include_none_option,
                   long_data, task_choice, parse_others>>

\* A return that does not look at long_data.
ParseReturnUnchecked ==
    /\ parse_pc = "loop"
    /\ resp_idx >= df_wide.n_rows
    /\ parse_pc' = "done"
    /\ UNCHANGED <<df_wide, resp_idx, task_num, chosen_alt_raw, include_none_option,
                   long_data, task_choice, parse_others>>

\* df_long = pd.DataFrame(long_data); ...; return df_long, attributes_schema
ParseReturn ==
    /\ parse_pc = "loop"
    /\ resp_idx >= df_wide.n_rows
    /\ Len(long_data) > 0
    /\ parse_pc' = "done"
    /\ UNCHANGED <<df_wide, resp_idx, task_num, chosen_alt_raw, include_none_option,
                   long_data, task_choice, parse_others>>

NextParse ==
    \/ ParseNoChoiceColumns
    \/ ParseNoAttributeColumns
    \/ ParseBegin
    \/ TaskNoColumn
    \/ TaskChoiceMissing
    \/ TaskChoiceNotNumeric
    \/ TaskChoiceBelowOne
    \/ TaskTooFewAlternatives
    \/ TaskInvalidChoice
    \/ TaskAppend
    \/ ParseNoValidData
    \/ ParseReturn

SpecParse == InitParse /\ [][NextParse]_vars

----------------------------------------------------------------------------
(* Claims about parse_survey_export_to_long *)

\* The (resp_id, task_id) groups of the long table.
Groups == {<<long_data[i].resp_id, long_data[i].task_id>> : i \in 1..Len(long_data)}

\* The positions of the rows of a group.
GroupRows(g) ==
    {i \in 1..Len(long_data) : long_data[i].resp_id = g[1] /\ long_data[i].task_id = g[2]}

\* The rows of a group marked chosen.
ChosenRows(g) == {i \in GroupRows(g) : long_data[i].chosen = 1}

\* C8: in the long table returned by parse_survey_export_to_long every
\* (resp_id, task_id) group has at least two rows, pairwise distinct alt_id,
\* at most one row with chosen = 1 and a choice index not above its number of
\* rows; the groups are those of the tasks whose rows were appended, so a task
\* failing the row-count or the choice-index condition has no rows.
C8_GroupInvariants ==
    parse_pc = "done" =>
        /\ Groups = DOMAIN task_choice
        /\ \A g \in Groups :
              /\ Cardinality(GroupRows(g)) >= 2
              /\ \A i, j \in GroupRows(g) : long_data[i].alt_id = long_data[j].alt_id => i = j
              /\ Cardinality(ChosenRows(g)) <= 1
              /\ task_choice[g] <= Cardinality(GroupRows(g))

\* A returned table with a three-row group holding a "none" row, beside a
\* respondent task that was dropped.
C8_Witness ==
    /\ parse_pc = "done"
    /\ \E g \in Groups : Cardinality(GroupRows(g)) = 3 /\ task_choice[g] = 3
    /\ Cardinality(Groups) < df_wide.n_rows * n_tasks

\* C9: every task that survives conversion has exactly one alternative row
\* with chosen = 1 in the returned long table, whichever alternatives have or
\* lack columns for that task.
C9_ExactlyOneChosen ==
    parse_pc = "done" => \A g \in Groups : Cardinality(ChosenRows(g)) = 1

\* C10 as claimed: with QC1_1 the only choice column, two alternative groups
\* with columns for task 1 and a respondent whose QC1_1 is 3, the task leaves
\* no rows and the conversion of that single respondent does not return.
Scenario3Table ==
    /\ parse_pc \in {"loop", "done", "error"}
    /\ df_wide.choice_cols = {1}
    /\ n_alts = 2
    /\ \A i \in 1..n_alts : 1 \in df_wide.brand_columns[df_wide.brand_order[i]]
    /\ df_wide.n_rows = 1
    /\ resp_idx = 1

C10_ChoiceThreeIsDropped ==
    (Scenario3Table /\ chosen_alt_raw = Num(30)) =>
        /\ long_data = <<>>
        /\ parse_pc # "done"

\* C10: in that table a choice of 3 is the "none" option: the task survives
\* with three rows, the third (alt_id 3) chosen, and the conversion does not
\* fail; it is a choice of 4 that is dropped as invalid, after which the
\* conversion can only fail.
C10_ChoiceThreeIsNoneOption ==
    /\ (Scenario3Table /\ chosen_alt_raw = Num(30)) =>
          /\ Len(long_data) = 3
          /\ \A i \in 1..3 : long_data[i].alt_id = i /\ long_data[i].chosen = (IF i = 3 THEN 1 ELSE 0)
          /\ parse_pc # "error"
    /\ (Scenario3Table /\ chosen_alt_raw = Num(40)) =>
          /\ long_data = <<>>
          /\ parse_pc # "done"

\* The conversion of the Scenario 3 table has returned.
C10_Witness ==
    /\ Scenario3Table
    /\ chosen_alt_raw = Num(30)
    /\ parse_pc = "done"

\* The choice cell makes the iteration under way drop its task.
DropsTask(cell) ==
    IF cell = NaN \/ int_raises(cell) THEN TRUE
    ELSE \/ int_of(cell) < 1
         \/ Len(task_rows(int_of(cell))) < 2
         \/ int_of(cell) > Len(task_rows(int_of(cell)))

\* A step that reads the choice cell of a task.
TaskStep ==
    /\ InLoop
    /\ task_num \in df_wide.choice_cols
    /\ <<resp_idx, task_num>>' # <<resp_idx, task_num>>

\* C11: a task whose choice is missing, non-numeric or below 1, that has fewer
\* than two rows or whose choice exceeds its row count adds no rows and does
\* not end the conversion, any other task adds exactly its rows; the call
\* returns only with at least one surviving task and fails with "no valid
\* choice data" only when no task survived.
C11_DroppedTasksDoNotAbort ==
    /\ [](parse_pc = "done" => (task_choice # <<>> /\ Groups = DOMAIN task_choice))
    /\ []((parse_pc = "error" /\ n_tasks > 0 /\ n_alts > 0) => (task_choice = <<>> /\ long_data = <<>>))
    /\ [][TaskStep =>
            /\ parse_pc' = "loop"
            /\ IF DropsTask(chosen_alt_raw')
               THEN long_data' = long_data /\ task_choice' = task_choice
               ELSE /\ long_data' = long_data \o task_rows(int_of(chosen_alt_raw'))
                    /\ DOMAIN task_choice' = DOMAIN task_choice \cup {<<resp_idx + 1, task_num>>}]_vars
    /\ [][(parse_pc = "loop" /\ parse_pc' # "loop") =>
            (parse_pc' = "error" <=> task_choice = <<>>)]_vars

\* The conversion returned although the task read last was dropped for a text
\* choice and an earlier one for too large a choice.
C11_Witness ==
    /\ parse_pc = "done"
    /\ chosen_alt_raw = Str(<<"x">>)
    /\ Cardinality(DOMAIN task_choice) = 1
    /\ df_wide.n_rows * n_tasks >= 3

----------------------------------------------------------------------------
(* parse_survey_export_to_long: attribute values and attribute schema *)

\* An integer cell (a numpy integer or a Python int).
IntCell(n) == [kind |-> "int", n |-> n]

\* The decimal digits of a natural number.
Digit(d) == <<"0", "1", "2", "3", "4", "5", "6", "7", "8", "9">>[d + 1]
RECURSIVE digits(_)
digits(n) == IF n < 10 THEN <<Digit(n)>> ELSE digits(n \div 10) \o <<Digit(n % 10)>>

\* str(value) of a cell: "11" for an int, "11.0" for a float, "nan" for NaN.
str_of(cell) ==
    CASE cell.kind = "int" -> digits(cell.n)
      [] cell.kind = "num" -> digits(cell.tenths \div 10) \o <<".">> \o digits(cell.tenths % 10)
      [] cell.kind = "str" -> cell.s
      [] cell.kind = "nan" -> <<"n", "a", "n">>

\* normalize_code: str(int(value)) for an integral number, str(value) for
\* another number, str(value).strip() for anything else.
normalize_code(cell) ==
    CASE cell.kind = "int" -> digits(cell.n)
      [] cell.kind = "num" ->
            IF cell.tenths % 10 = 0 THEN digits(cell.tenths \div 10) ELSE str_of(cell)
      [] OTHER -> strip(str_of(cell))

\* str.upper() on the letters used by the model.
upper(t) == [i \in DOMAIN t |-> IF t[i] = "a" THEN "A" ELSE IF t[i] = "b" THEN "B" ELSE t[i]]

\* level_names: the stripped non-empty level names, without repetition, in order.
RECURSIVE level_names_of(_, _)
level_names_of(levels, acc) ==
    IF Len(levels) = 0 THEN acc
    ELSE LET level_name == strip(Head(levels).level)
         IN  level_names_of(Tail(levels),
                IF Len(level_name) > 0 /\ level_name \notin Range(acc)
                THEN Append(acc, level_name) ELSE acc)

\* code_map[code] = level_name or code, for every level with a code.
RECURSIVE code_map_of(_, _)
code_map_of(levels, acc) ==
    IF Len(levels) = 0 THEN acc
    ELSE LET code == strip(Head(levels).code)
             level_name == strip(Head(levels).level)
         IN  code_map_of(Tail(levels),
                IF Len(code) > 0
                THEN (code :> (IF Len(level_name) > 0 THEN level_name ELSE code)) @@ acc
                ELSE acc)

\* reference_str: the stripped reference, None when absent or blank.
reference_str(attr) ==
    IF attr.reference = None THEN None
    ELSE IF Len(strip(attr.reference.v)) = 0 THEN None
    ELSE Some(strip(attr.reference.v))

\* attr_key = attr_name.upper(); attr_no = str(attr_no_raw).strip()
attr_key_of(attr) == upper(strip(attr.name))
attr_no_of(attr) == strip(attr.attributeNo)

\* entry_data of one attribute of the design (lines 877-914).
entry_data(attr) ==
    LET attr_name == strip(attr.name)
        names == level_names_of(attr.levels, <<>>)
        ref == reference_str(attr)
    IN  [label |-> attr_name,
         reference |-> ref,
         code_map |-> code_map_of(attr.levels, <<>>),
         level_names |-> IF ref # None /\ ref.v \notin Range(names) THEN Append(names, ref.v) ELSE names,
         schema_name |-> IF Len(attr_name) > 0 THEN attr_name
                         ELSE IF Len(attr_no_of(attr)) > 0
                              THEN <<"A", "T", "T", "R", "_">> \o attr_no_of(attr)
                              ELSE attr_key_of(attr)]

\* if attributes_from_design: (None and the empty list are both false)
has_design(design) == design # None /\ Len(design.v) > 0

\* design_lookup: attr_key -> entry_data, a later attribute replacing an earlier one.
RECURSIVE design_lookup_of(_, _)
design_lookup_of(attrs, acc) ==
    IF Len(attrs) = 0 THEN acc
    ELSE design_lookup_of(Tail(attrs),
            IF Len(attr_key_of(Head(attrs))) > 0
            THEN (attr_key_of(Head(attrs)) :> entry_data(Head(attrs))) @@ acc ELSE acc)

\* design_lookup_by_no: attr_no -> entry_data.
RECURSIVE design_lookup_by_no_of(_, _)
design_lookup_by_no_of(attrs, acc) ==
    IF Len(attrs) = 0 THEN acc
    ELSE design_lookup_by_no_of(Tail(attrs),
            IF Len(attr_no_of(Head(attrs))) > 0
            THEN (attr_no_of(Head(attrs)) :> entry_data(Head(attrs))) @@ acc ELSE acc)

design_lookup == IF has_design(attributes_from_design) THEN design_lookup_of(attributes_from_design.v, <<>>) ELSE <<>>
design_lookup_by_no == IF has_design(attributes_from_design) THEN design_lookup_by_no_of(attributes_from_design.v, <<>>) ELSE <<>>

\* if pd.isna(raw_value) or raw_value == '': continue
raw_value_missing(slot) == slot.value = NaN \/ slot.value = Str(<<>>)

\* attr_no of a slot: the stripped text of its header cell when there is one
\* and it is not blank, else the level code without its last character when
\* the code has more than one character, else nothing (the empty text).
slot_attr_no(slot) ==
    LET header_str == IF slot.header = None \/ slot.header = NaN THEN <<>>
                      ELSE strip(str_of(slot.header))
        normalized == normalize_code(slot.value)
    IN  IF Len(header_str) > 0 THEN header_str
        ELSE IF Len(normalized) > 1 THEN SubSeq(normalized, 1, Len(normalized) - 1)
        ELSE <<>>

\* design_entry of a slot: by attribute number, else by brand, else None.
slot_design_entry(slot, brand) ==
    LET attr_no == slot_attr_no(slot)
    IN  IF Len(attr_no) > 0 /\ attr_no \in DOMAIN design_lookup_by_no
        THEN Some(design_lookup_by_no[attr_no])
        ELSE IF brand \in DOMAIN design_lookup THEN Some(design_lookup[brand])
        ELSE None

\* level_name of a slot: the code map's name for the code, else the code itself.
slot_level_name(slot, design_entry) ==
    LET level_code == normalize_code(slot.value)
    IN  IF level_code \in DOMAIN design_entry.code_map
        THEN design_entry.code_map[level_code] ELSE level_code

\* schema_name = design_entry.get('schema_name') or design_entry.get('label') or attr_no or brand
slot_schema_name(slot, brand, design_entry) ==
    IF Len(design_entry.schema_name) > 0 THEN design_entry.schema_name
    ELSE IF Len(design_entry.label) > 0 THEN design_entry.label
    ELSE IF Len(slot_attr_no(slot)) > 0 THEN slot_attr_no(slot)
    ELSE brand

\* The characters of the model in the order of their code points.
Alphabet == <<" ", ".", "0", "1", "2", "3", "4", "5", "6", "7", "8", "9",
              "A", "B", "H", "L", "R", "T", "X", "_", "a", "b", "e", "f", "i", "n", "o">>
CharRank(c) == CHOOSE i \in DOMAIN Alphabet : Alphabet[i] = c

\* a < b for Python strings.
RECURSIVE str_less(_, _)
str_less(a, b) ==
    IF Len(b) = 0 THEN FALSE
    ELSE IF Len(a) = 0 THEN TRUE
    ELSE IF Head(a) = Head(b) THEN str_less(Tail(a), Tail(b))
    ELSE CharRank(Head(a)) < CharRank(Head(b))

\* sorted(names)
RECURSIVE sorted(_)
sorted(names) ==
    IF names = {} THEN <<>>
    ELSE LET first == CHOOSE n \in names : \A m \in names \ {n} : str_less(n, m)
         IN  <<first>> \o sorted(names \ {first})

\* The values of df_long[schema_name].dropna(), without repetition, in first-seen order.
RECURSIVE seen_levels_of(_, _, _)
seen_levels_of(rows, schema_name, acc) ==
    IF Len(rows) = 0 THEN acc
    ELSE seen_levels_of(Tail(rows), schema_name,
            IF schema_name \in DOMAIN Head(rows) /\ Head(rows)[schema_name] \notin Range(acc)
            THEN Append(acc, Head(rows)[schema_name]) ELSE acc)

\* The schema inferred from the rows (lines 1149-1163).
RECURSIVE inferred_schema(_, _)
inferred_schema(names, rows) ==
    IF Len(names) = 0 THEN <<>>
    ELSE << [name |-> Head(names), levels |-> seen_levels_of(rows, Head(names), <<>>),
             reference |-> None, label |-> Head(names)] >> \o inferred_schema(Tail(names), rows)

\* levels = [lvl for lvl in level_values if lvl]: the stripped non-empty level names.
RECURSIVE level_values_of(_)
level_values_of(levels) ==
    IF Len(levels) = 0 THEN <<>>
    ELSE (IF Len(strip(Head(levels).level)) > 0 THEN <<strip(Head(levels).level)>> ELSE <<>>)
         \o level_values_of(Tail(levels))

\* The schema entry of one attribute of the design, or nothing (lines 1113-1147).
design_schema_entry(attr) ==
    LET attr_no == attr_no_of(attr)
        attr_key == attr_key_of(attr)
        design_entry == IF Len(attr_no) > 0 /\ attr_no \in DOMAIN design_lookup_by_no
                        THEN Some(design_lookup_by_no[attr_no])
                        ELSE IF Len(attr_key) > 0 /\ attr_key \in DOMAIN design_lookup
                        THEN Some(design_lookup[attr_key])
                        ELSE None
    IN  IF design_entry = None THEN <<>>
        ELSE << [name |-> IF Len(design_entry.v.schema_name) > 0 THEN design_entry.v.schema_name
                          ELSE IF Len(strip(attr.name)) > 0 THEN strip(attr.name)
                          ELSE IF Len(attr_key) > 0 THEN attr_key ELSE attr_no,
                 levels |-> IF Len(design_entry.v.level_names) > 0 THEN design_entry.v.level_names
                            ELSE level_values_of(attr.levels),
                 reference |-> design_entry.v.reference,
                 label |-> design_entry.v.label] >>

\* The schema built from the design.
RECURSIVE design_schema(_)
design_schema(attrs) ==
    IF Len(attrs) = 0 THEN <<>>
    ELSE design_schema_entry(Head(attrs)) \o design_schema(Tail(attrs))

----------------------------------------------------------------------------
(* Inputs of the attribute resolution *)

\* The most alternative rows assembled by a call.
MaxAltRows == 2

Lo == <<"L", "o">>
Hi == <<"H", "i">>
Levels_11_12 == << [code |-> <<"1", "1">>, level |-> Lo], [code |-> <<"1", "2">>, level |-> Hi] >>

\* Attribute definitions of a design: attribute 1 named A with two coded
\* levels; the same with a reference outside the levels; one whose two codes
\* share a level name; and an attribute named b without a number, with a
\* blank reference, an uncoded level and a coded level without a name.
DesignAttrs ==
    { [name |-> <<"A">>, attributeNo |-> <<"1">>, reference |-> None, levels |-> Levels_11_12],
      [name |-> <<"A">>, attributeNo |-> <<"1">>, reference |-> Some(<<"R", "e", "f">>), levels |-> Levels_11_12],
      [name |-> <<"A">>, attributeNo |-> <<"1">>, reference |-> Some(Lo),
       levels |-> << [code |-> <<"1", "1">>, level |-> Lo], [code |-> <<"1", "2">>, level |-> Lo] >>],
      [name |-> <<"b">>, attributeNo |-> <<>>, reference |-> Some(<<" ">>),
       levels |-> << [code |-> <<>>, level |-> <<"X">>], [code |-> <<"2", "1">>, level |-> <<>>] >>] }

AttrB == CHOOSE d \in DesignAttrs : d.name = <<"b">>

\* attributes_from_design: absent, empty, one attribute, or attribute 1 and b.
Designs ==
    {None, Some(<<>>)} \cup {Some(<<d>>) : d \in DesignAttrs}
    \cup {Some(<<d, AttrB>>) : d \in {e \in DesignAttrs : e.reference = None}}

\* The cells of a slot: its value column and its header column (None when
\* the slot has no header column).
SlotCells ==
    [brand : {<<"A">>, <<"B">>},
     value : {NaN, IntCell(11), IntCell(12), Num(210)},
     header : {None, NaN, IntCell(2), Num(10)}]

SlotRows == UNION {[1..n -> SlotCells] : n \in 0..MaxAltRows}

----------------------------------------------------------------------------
(* Attribute resolution, one step per alternative row, then the schema *)

InitSlots ==
    /\ IdleDesign
    /\ IdleSim
    /\ IdleParse
    /\ IdleEstimate
    /\ IdleDefs
    /\ IdleMarket
    /\ IdleTransform
    /\ IdleAnalyze
    /\ attributes_from_design \in Designs
    /\ alt_slots \in SlotRows
    /\ slot_i = 1
    /\ alt_attrs = <<>>
    /\ attributes_seen = {}
    /\ attributes_schema = None
    /\ slot_pc = "rows"

\* if pd.isna(raw_value) or raw_value == '': continue
SlotValueMissing ==
    /\ slot_pc = "rows"
    /\ slot_i <= Len(alt_slots)
    /\ raw_value_missing(alt_slots[slot_i])
    /\ alt_attrs' = Append(alt_attrs, <<>>)
    /\ slot_i' = slot_i + 1
    /\ UNCHANGED <<attributes_from_design, alt_slots, attributes_seen, attributes_schema,
                   slot_pc, slot_others>>

\* if not design_entry: continue
SlotNoDesignEntry ==
    /\ slot_pc = "rows"
    /\ slot_i <= Len(alt_slots)
    /\ ~raw_value_missing(alt_slots[slot_i])
    /\ slot_design_entry(alt_slots[slot_i], alt_slots[slot_i].brand) = None
    /\ alt_attrs' = Append(alt_attrs, <<>>)
    /\ slot_i' = slot_i + 1
    /\ UNCHANGED <<attributes_from_design, alt_slots, attributes_seen, attributes_schema,
                   slot_pc, slot_others>>

\* alt_data[schema_name] = level_name; attributes_seen.add(schema_name)
SlotResolved ==
    /\ slot_pc = "rows"
    /\ slot_i <= Len(alt_slots)
    /\ ~raw_value_missing(alt_slots[slot_i])
    /\ slot_design_entry(alt_slots[slot_i], alt_slots[slot_i].brand) # None
    /\ LET slot == alt_slots[slot_i]
           design_entry == slot_design_entry(slot, slot.brand).v
           schema_name == slot_schema_name(slot, slot.brand, design_entry)
       IN  /\ alt_attrs' = Append(alt_attrs, schema_name :> slot_level_name(slot, design_entry))
           /\ attributes_seen' = attributes_seen \cup {schema_name}
    /\ slot_i' = slot_i + 1
    /\ UNCHANGED <<attributes_from_design, alt_slots, attributes_schema, slot_pc, slot_others>>

\* if attributes_from_design: attributes_schema = [... for attr in attributes_from_design]
SchemaFromDesign ==
    /\ slot_pc = "rows"
    /\ slot_i > Len(alt_slots)
    /\ has_design(attributes_from_design)
    /\ attributes_schema' = Some(design_schema(attributes_from_design.v))
    /\ slot_pc' = "done"
    /\ UNCHANGED <<attributes_from_design, alt_slots, slot_i, alt_attrs, attributes_seen, slot_others>>

\* else: attributes_schema = [... for schema_name in sorted(attributes_seen)]
SchemaInferred ==
    /\ slot_pc = "rows"
    /\ slot_i > Len(alt_slots)
    /\ ~has_design(attributes_from_design)
    /\ attributes_schema' = Some(inferred_schema(sorted(attributes_seen), alt_attrs))
    /\ slot_pc' = "done"
    /\ UNCHANGED <<attributes_from_design, alt_slots, slot_i, alt_attrs, attributes_seen, slot_others>>

NextSlots ==
    \/ SlotValueMissing
    \/ SlotNoDesignEntry
    \/ SlotResolved
    \/ SchemaFromDesign
    \/ SchemaInferred

SpecSlots == InitSlots /\ [][NextSlots]_vars

----------------------------------------------------------------------------
(* Claims about the attribute schema of parse_survey_export_to_long *)

\* The level codes observed in the value cells of the rows, in first-seen order.
RECURSIVE observed_codes(_, _)
observed_codes(rows, acc) ==
    IF Len(rows) = 0 THEN acc
    ELSE observed_codes(Tail(rows),
            IF ~raw_value_missing(Head(rows)) /\ normalize_code(Head(rows).value) \notin Range(acc)
            THEN Append(acc, normalize_code(Head(rows).value)) ELSE acc)

\* C12: called without an attribute schema, the converter returns a schema
\* with an attribute for each attribute observed in the data, whose levels
\* are the level values observed, in first-seen order, with no reference.
C12_SchemaInferredFromData ==
    (slot_pc = "done" /\ ~has_design(attributes_from_design)) =>
        /\ Len(observed_codes(alt_slots, <<>>)) > 0 => Len(attributes_schema.v) > 0
        /\ \A code \in Range(observed_codes(alt_slots, <<>>)) :
              \E i \in DOMAIN attributes_schema.v : code \in Range(attributes_schema.v[i].levels)
        /\ \A i \in DOMAIN attributes_schema.v : attributes_schema.v[i].reference = None

----------------------------------------------------------------------------
(* The estimation calls: estimate_from_two_sheets, estimate_from_survey_export
   and _fit_mnlogit, from the prepared data to the response *)

\* build_design_matrix raises: pd.concat of no blocks, a missing column, or
\* levels[-1] of an empty level list.
design_raises(attrs, columns_present) ==
    \/ Len(attrs) = 0
    \/ ~columns_present
    \/ \E i \in DOMAIN attrs : effect_code_raises(attrs[i].levels, attrs[i].reference)

\* list(X.columns) of build_design_matrix(df, attrs).
design_columns(attrs) ==
    <<ConstName>> \o
    Concat([i \in DOMAIN attrs |->
        LET cats == cats_of(attrs[i].levels, resolved_reference(attrs[i].levels, attrs[i].reference))
        IN  [j \in 1..Len(cats) |-> column_name(attrs[i].name, cats[j])]])

\* coefs.to_dict(): column name -> coefficient, the last of equal names winning.
RECURSIVE to_dict(_, _, _)
to_dict(columns, params, acc) ==
    IF Len(columns) = 0 THEN acc
    ELSE to_dict(Tail(columns), Tail(params), (Head(columns) :> Head(params)) @@ acc)

\* The index of the first "__" in k, 0 when there is none.
find_sep(k) ==
    IF \E i \in 1..(Len(k) - 1) : k[i] = "_" /\ k[i + 1] = "_"
    THEN CHOOSE i \in 1..(Len(k) - 1) :
            /\ k[i] = "_" /\ k[i + 1] = "_"
            /\ \A j \in 1..(i - 1) : ~(k[j] = "_" /\ k[j + 1] = "_")
    ELSE 0

\* attr, lvl = k.split("__", 1)
regroup_key(k) ==
    LET i == find_sep(k)
    IN  [attr |-> SubSeq(k, 1, i - 1), lvl |-> SubSeq(k, i + 2, Len(k))]

\* by_attr: for every key but "const" that holds "__",
\* by_attr.setdefault(attr, {})[lvl] = float(v)
RECURSIVE by_attr_of(_, _, _)
by_attr_of(keys, util, acc) ==
    IF keys = {} THEN acc
    ELSE LET k == CHOOSE x \in keys : TRUE
             rest == by_attr_of(keys \ {k}, util, acc)
         IN  IF k = ConstName \/ find_sep(k) = 0 THEN rest
             ELSE LET g == regroup_key(k)
                      old == IF g.attr \in DOMAIN rest THEN rest[g.attr] ELSE <<>>
                  IN  (g.attr :> ((g.lvl :> util[k]) @@ old)) @@ rest

\* The test without np.isinf.
numerical_issue_no_isinf(llf) == llf = None \/ llf = NaN

\* log_likelihood is None or np.isnan(log_likelihood) or np.isinf(log_likelihood)
numerical_issue(llf) == llf = None \/ llf = NaN \/ llf.kind = "inf"

\* The payload of a call whose fit returned.
payload(columns, res) ==
    LET util == to_dict(columns, res.params, <<>>)
    IN  [intercept |-> IF ConstName \in DOMAIN util THEN util[ConstName] ELSE 0,
         utilities |-> by_attr_of(DOMAIN util, util, <<>>),
         columns |-> columns,
         log_likelihood |-> res.llf]

----------------------------------------------------------------------------
(* Inputs of the estimation calls *)

Flows == {"two_sheets", "survey_export", "cli"}

\* Attribute definitions handed to build_design_matrix: P with the default
\* reference, P with reference A, an attribute whose name ends with "_", one
\* whose name holds "__", and one without levels.
EstAttrs ==
    { [name |-> NameP, levels |-> <<<<"A">>, <<"B">>, <<"C">>>>, reference |-> None],
      [name |-> NameP, levels |-> <<<<"A">>, <<"B">>>>, reference |-> Str(<<"A">>)],
      [name |-> NameB, levels |-> <<<<"X">>, <<"Y">>>>, reference |-> None],
      [name |-> <<"a", "_">>, levels |-> <<<<"X">>, <<"Y">>>>, reference |-> None],
      [name |-> <<"a", "_", "_", "b">>, levels |-> <<<<"X">>, <<"Y">>>>, reference |-> None],
      [name |-> NameB, levels |-> <<>>, reference |-> None] }

\* Schemas of at most two attributes with different names.
EstSchemas ==
    {<<>>} \cup {<<a>> : a \in EstAttrs}
    \cup {<<a, b>> : <<a, b>> \in {q \in EstAttrs \X EstAttrs : q[1].name = NameP /\ q[2].name # NameP}}

\* The messages of a fit that raises.
FitErrors == {"singular", "overflow"}

\* res.llf: absent, a number, NaN or an infinity.
Infinite == [kind |-> "inf"]
LlfValues == {None, NaN, Infinite, Num(-50)}

\* The coefficients a fit may return for n columns.
Coefs == {-1, 2}
FitResults(n) == [params : [1..n -> Coefs], llf : LlfValues]

----------------------------------------------------------------------------
(* The steps of an estimation call *)

InitEstimate ==
    /\ IdleDesign
    /\ IdleSim
    /\ IdleParse
    /\ IdleSlots
    /\ IdleDefs
    /\ IdleMarket
    /\ IdleTransform
    /\ IdleAnalyze
    /\ est_req \in [flow : Flows, attributes : EstSchemas, n_rows : {0, 1},
                    columns_present : BOOLEAN]
    /\ est_X = None
    /\ fit_attempts = <<>>
    /\ est_res = None
    /\ est_response = None
    /\ est_error = None
    /\ est_pc = "prepare"

\* The error the caller gets for an exception raised inside the estimation
\* block: the services wrap it in an HTTP 400, _fit_mnlogit lets it through.
raised(cause, messages) ==
    Some([status |-> IF est_req.flow = "cli" THEN "exception" ELSE "http_400",
          cause |-> cause, messages |-> messages])

\* if rows_after_dropna == 0: raise ValueError("No valid choice data found ...")
EstNoRows ==
    /\ est_pc = "prepare"
    /\ est_req.n_rows = 0
    /\ est_error' = raised("no_valid_choice_data", <<>>)
    /\ est_pc' = "error"
    /\ UNCHANGED <<est_req, est_X, fit_attempts, est_res, est_response, est_others>>

\* estimate_from_two_sheets: X = build_design_matrix(df, attributes_schema);
\* no name attributes_schema is bound in the function or the module, the
\* parsed definitions are in "attributes": NameError.
EstUnboundSchema ==
    /\ est_pc = "prepare"
    /\ est_req.n_rows > 0
    /\ est_req.flow = "two_sheets"
    /\ est_error' = raised("NameError", <<>>)
    /\ est_pc' = "error"
    /\ UNCHANGED <<est_req, est_X, fit_attempts, est_res, est_response, est_others>>

\* build_design_matrix raises.
EstDesignRaises ==
    /\ est_pc = "prepare"
    /\ est_req.n_rows > 0
    /\ est_req.flow # "two_sheets"
    /\ design_raises(est_req.attributes, est_req.columns_present)
    /\ est_error' = raised("design_matrix", <<>>)
    /\ est_pc' = "error"
    /\ UNCHANGED <<est_req, est_X, fit_attempts, est_res, est_response, est_others>>

\* X = build_design_matrix(df, attributes_schema); model = MNLogit(y, X)
EstDesign ==
    /\ est_pc = "prepare"
    /\ est_req.n_rows > 0
    /\ est_req.flow # "two_sheets"
    /\ ~design_raises(est_req.attributes, est_req.columns_present)
    /\ est_X' = Some(design_columns(est_req.attributes))
    /\ est_pc' = "newton"
    /\ UNCHANGED <<est_req, fit_attempts, est_res, est_response, est_error, est_others>>

\* res = model.fit(method="newton", disp=False, maxiter=100) returns
FitNewtonReturns ==
    /\ est_pc = "newton"
    /\ \E res \in FitResults(Len(est_X.v)) : est_res' = Some(res)
    /\ fit_attempts' = Append(fit_attempts, [method |-> "newton", maxiter |-> 100, raised |-> None])
    /\ est_pc' = "extract"
    /\ UNCHANGED <<est_req, est_X, est_response, est_error, est_others>>

\* A Newton failure that ends the call without a second attempt.
FitNewtonRaisesAborts ==
    /\ est_pc = "newton"
    /\ \E e \in FitErrors :
          /\ fit_attempts' = Append(fit_attempts, [method |-> "newton", maxiter |-> 100, raised |-> Some(e)])
          /\ est_error' = raised("both_methods_failed", <<e>>)
    /\ est_pc' = "error"
    /\ UNCHANGED <<est_req, est_X, est_res, est_response, est_others>>

\* model.fit(method="newton", ...) raises: except Exception as e
FitNewtonRaises ==
    /\ est_pc = "newton"
    /\ \E e \in FitErrors :
          fit_attempts' = Append(fit_attempts, [method |-> "newton", maxiter |-> 100, raised |-> Some(e)])
    /\ est_pc' = "bfgs"
    /\ UNCHANGED <<est_req, est_X, est_res, est_response, est_error, est_others>>

\* res = model.fit(method="bfgs", disp=False, maxiter=200) returns
FitBfgsReturns ==
    /\ est_pc = "bfgs"
    /\ \E res \in FitResults(Len(est_X.v)) : est_res' = Some(res)
    /\ fit_attempts' = Append(fit_attempts, [method |-> "bfgs", maxiter |-> 200, raised |-> None])
    /\ est_pc' = "extract"
    /\ UNCHANGED <<est_req, est_X, est_response, est_error, est_others>>

\* model.fit(method="bfgs", ...) raises: raise ValueError(f"... Newton: {e}, BFGS: {e2}")
FitBfgsRaises ==
    /\ est_pc = "bfgs"
    /\ \E e2 \in FitErrors :
          /\ fit_attempts' = Append(fit_attempts, [method |-> "bfgs", maxiter |-> 200, raised |-> Some(e2)])
          /\ est_error' = raised("both_methods_failed", <<fit_attempts[1].raised.v, e2>>)
    /\ est_pc' = "error"
    /\ UNCHANGED <<est_req, est_X, est_res, est_response, est_others>>

\* The services: if log_likelihood is None or np.isnan(...) or np.isinf(...): raise ValueError
EstRejectNumerical ==
    /\ est_pc = "extract"
    /\ est_req.flow # "cli"
    /\ numerical_issue(est_res.v.llf)
    /\ est_error' = raised("numerical_issues", <<>>)
    /\ est_pc' = "error"
    /\ UNCHANGED <<est_req, est_X, fit_attempts, est_res, est_response, est_others>>

\* The payload is returned; _fit_mnlogit does not look at log_likelihood.
EstReturn ==
    /\ est_pc = "extract"
    /\ est_req.flow = "cli" \/ ~numerical_issue(est_res.v.llf)
    /\ est_response' = Some(payload(est_X.v, est_res.v))
    /\ est_pc' = "done"
    /\ UNCHANGED <<est_req, est_X, fit_attempts, est_res, est_error, est_others>>

NextEstimate ==
    \/ EstNoRows
    \/ EstUnboundSchema
    \/ EstDesignRaises
    \/ EstDesign
    \/ FitNewtonReturns
    \/ FitNewtonRaises
    \/ FitBfgsReturns
    \/ FitBfgsRaises
    \/ EstRejectNumerical
    \/ EstReturn

SpecEstimate == InitEstimate /\ [][NextEstimate]_vars

----------------------------------------------------------------------------
(* Claims about the estimation calls *)

Newton(r) == [method |-> "newton", maxiter |-> 100, raised |-> r]
Bfgs(r) == [method |-> "bfgs", maxiter |-> 200, raised |-> r]

\* The call is past its fit attempts.
FitIsOver == est_pc \in {"extract", "done", "error"} /\ Len(fit_attempts) > 0

\* C13: the first fit attempt of a call is Newton with maxiter 100; a second
\* attempt is made exactly when Newton raised and it is BFGS with maxiter 200;
\* there is no third; when both raise the call fails with an error carrying
\* both messages and returns no payload.
C13_NewtonThenBfgs ==
    /\ Len(fit_attempts) <= 2
    /\ Len(fit_attempts) >= 1 => \E r \in {None} \cup {Some(e) : e \in FitErrors} : fit_attempts[1] = Newton(r)
    /\ Len(fit_attempts) = 2 =>
          /\ fit_attempts[1].raised # None
          /\ \E r \in {None} \cup {Some(e) : e \in FitErrors} : fit_attempts[2] = Bfgs(r)
    /\ FitIsOver => (Len(fit_attempts) = 2 <=> fit_attempts[1].raised # None)
    /\ (Len(fit_attempts) = 2 /\ fit_attempts[2].raised # None) =>
          /\ est_pc = "error"
          /\ est_response = None
          /\ est_res = None
          /\ est_error # None
          /\ est_error.v.messages = <<fit_attempts[1].raised.v, fit_attempts[2].raised.v>>

\* Both attempts raised, with different messages.
C13_Witness ==
    /\ est_pc = "error"
    /\ Len(fit_attempts) = 2
    /\ fit_attempts[1].raised = Some("singular")
    /\ fit_attempts[2].raised = Some("overflow")
    /\ est_error.v.messages = <<"singular", "overflow">>

\* C14: a service call (estimate_from_two_sheets, estimate_from_survey_export)
\* returns a payload only with a log-likelihood that is a finite number; a
\* fit that returned with an absent, NaN or infinite log-likelihood ends in
\* the numerical-issues error and nothing is returned.
C14_NoUndefinedLogLikelihood ==
    est_req.flow # "cli" =>
        /\ est_response # None => est_response.v.log_likelihood.kind = "num"
        /\ (est_pc \in {"done", "error"} /\ est_res # None /\ est_res.v.llf \in {None, NaN, Infinite}) =>
              /\ est_response = None
              /\ est_error # None
              /\ est_error.v.cause = "numerical_issues"

\* A BFGS fit of the survey-export service returned an infinite
\* log-likelihood and the call was rejected.
C14_Witness ==
    /\ est_req.flow = "survey_export"
    /\ est_pc = "error"
    /\ Len(fit_attempts) = 2
    /\ est_res # None
    /\ est_res.v.llf = Infinite
    /\ est_error.v.cause = "numerical_issues"

\* The position of a column in the design matrix.
ColumnIndex(c) == CHOOSE i \in DOMAIN est_X.v : est_X.v[i] = c

\* The non-reference levels of an attribute definition.
NonReferenceLevels(a) == Range(cats_of(a.levels, resolved_reference(a.levels, a.reference)))

\* C15: in a returned payload utilities[a][l] is the coefficient of column
\* a__l for every attribute a of the schema and every non-reference level l,
\* utilities has no other attribute or level, and the intercept is the
\* coefficient of the constant column.
C15_RegroupingInvertsNaming ==
    est_response # None =>
        LET utilities == est_response.v.utilities
            attrs == Range(est_req.attributes)
        IN  /\ DOMAIN utilities = {a.name : a \in attrs}
            /\ \A a \in attrs :
                  /\ a.name \in DOMAIN utilities
                  /\ DOMAIN utilities[a.name] = NonReferenceLevels(a)
                  /\ \A l \in NonReferenceLevels(a) :
                        utilities[a.name][l] = est_res.v.params[ColumnIndex(column_name(a.name, l))]
            /\ est_response.v.intercept = est_res.v.params[ColumnIndex(ConstName)]

\* C16: in estimate_from_two_sheets with a parsed definitions sheet, the
\* required columns and at least one row with a chosen value, the call does
\* not end before a fit attempt was made.
C16_TwoSheetsReachesFit ==
    (est_req.flow = "two_sheets" /\ est_req.n_rows > 0 /\ est_req.columns_present
     /\ ~design_raises(est_req.attributes, est_req.columns_present)
     /\ est_pc \in {"done", "error"}) =>
        Len(fit_attempts) >= 1

----------------------------------------------------------------------------
(* parse_definitions_sheet *)

\* str.lower() on the letters used by the model.
LowerOf == ("A" :> "a") @@ ("B" :> "b") @@ ("C" :> "c") @@ ("N" :> "n") @@ ("P" :> "p")
           @@ ("X" :> "x") @@ ("Y" :> "y") @@ ("Z" :> "z")
lower(t) == [i \in DOMAIN t |-> IF t[i] \in DOMAIN LowerOf THEN LowerOf[t[i]] ELSE t[i]]

\* str(c).strip().lower() of a header.
HeaderNormalized ==
    ("name" :> "name") @@ ("Name" :> "name") @@ ("type" :> "type") @@ ("levels" :> "levels")
    @@ (" Levels" :> "levels") @@ ("reference" :> "reference")

\* df_defs.rename(columns={str(c).strip().lower(): str(c).strip().lower() for c in
\* df_defs.columns}): the mapping sends each normalized header to itself, and
\* rename only touches columns that are keys of the mapping.
renamed_columns(columns) ==
    LET mapping == [k \in {HeaderNormalized[c] : c \in columns} |-> k]
    IN  {IF c \in DOMAIN mapping THEN mapping[c] ELSE c : c \in columns}

\* levels_raw.split(",")
RECURSIVE split_commas(_, _)
split_commas(t, cur) ==
    IF Len(t) = 0 THEN <<cur>>
    ELSE IF Head(t) = "," THEN <<cur>> \o split_commas(Tail(t), <<>>)
    ELSE split_commas(Tail(t), Append(cur, Head(t)))

\* levels = [s.strip() for s in levels_raw.split(",") if s.strip()]
levels_of(levels_raw) ==
    LET parts == split_commas(levels_raw, <<>>)
        stripped == [i \in DOMAIN parts |-> strip(parts[i])]
    IN  SelectSeq(stripped, LAMBDA x : Len(x) > 0)

Categorical == <<"c", "a", "t", "e", "g", "o", "r", "i", "c", "a", "l">>

\* name = str(row.get("name")).strip()
defs_name(row) == strip(astype_str(row.name))

\* typ = str(row.get("type", "categorical")).strip().lower()
defs_typ(row) == lower(strip(astype_str(row.type)))

\* reference = row.get("reference", None): None without a reference column.
defs_reference(row) == IF "reference" \in renamed_columns(df_defs.columns) THEN row.reference ELSE None

\* ref = None if pd.isna(reference) else str(reference).strip()
defs_ref(row) ==
    IF defs_reference(row) = None \/ defs_reference(row) = NaN THEN None
    ELSE Str(strip(defs_reference(row).s))

\* if not name or name.lower() == "nan": continue
defs_skips(row) == Len(defs_name(row)) = 0 \/ lower(defs_name(row)) = <<"n", "a", "n">>

\* if not isinstance(levels_raw, str) or not levels_raw.strip(): raise
defs_no_levels(row) == IF row.levels.kind = "str" THEN Len(strip(row.levels.s)) = 0 ELSE TRUE

\* if ref and ref not in levels: raise
defs_bad_reference(row) ==
    /\ defs_ref(row) # None
    /\ Len(defs_ref(row).s) > 0
    /\ defs_ref(row).s \notin Range(levels_of(row.levels.s))

----------------------------------------------------------------------------
(* Inputs of parse_definitions_sheet *)

\* The most rows of a definitions sheet.
MaxDefs == 2

ABC == <<"A", ",", "B", ",", "C">>

\* Rows of a definitions sheet.
DefRows ==
    { [name |-> Str(NameP), type |-> Str(Categorical), levels |-> Str(ABC), reference |-> NaN],
      [name |-> Str(NameP), type |-> Str(Categorical), levels |-> Str(ABC), reference |-> Str(<<" ", "A", " ">>)],
      [name |-> Str(NameP), type |-> Str(Categorical), levels |-> Str(ABC), reference |-> Str(<<"Z">>)],
      [name |-> Str(NameP), type |-> Str(<<"C">> \o Tail(Categorical) \o <<" ">>),
       levels |-> Str(<<"A", ",", ",", " ", "B">>), reference |-> Str(<<" ">>)],
      [name |-> Str(NameP), type |-> Str(<<"n", "u", "m">>), levels |-> Str(ABC), reference |-> NaN],
      [name |-> Str(NameP), type |-> NaN, levels |-> Str(ABC), reference |-> NaN],
      [name |-> Str(NameB), type |-> Str(Categorical), levels |-> Str(<<"X", ",", " ", "X", " ", ",", "Y">>), reference |-> NaN],
      [name |-> Str(NameB), type |-> Str(Categorical), levels |-> Str(<<"X", ",", "X">>), reference |-> Str(<<"X">>)],
      [name |-> Str(NameB), type |-> Str(Categorical), levels |-> Str(<<"X", ",">>), reference |-> NaN],
      [name |-> Str(NameB), type |-> Str(Categorical), levels |-> Str(<<" ">>), reference |-> NaN],
      [name |-> Str(NameB), type |-> Str(Categorical), levels |-> NaN, reference |-> NaN],
      [name |-> NaN, type |-> NaN, levels |-> NaN, reference |-> NaN],
      [name |-> Str(<<"N", "a", "N", " ">>), type |-> Str(Categorical), levels |-> Str(ABC), reference |-> NaN] }

\* The headers of a definitions sheet.
DefColumns ==
    { {"name", "type", "levels", "reference"}, {"name", "type", "levels"},
      {"Name", "type", "levels"}, {"name", "levels"}, {"name", "type", " Levels", "reference"} }

DefSheets ==
    [columns : DefColumns, rows : UNION {[1..n -> DefRows] : n \in 0..MaxDefs}]

----------------------------------------------------------------------------
(* parse_definitions_sheet, one step per row *)

InitDefs ==
    /\ IdleDesign
    /\ IdleSim
    /\ IdleParse
    /\ IdleSlots
    /\ IdleEstimate
    /\ IdleMarket
    /\ IdleTransform
    /\ IdleAnalyze
    /\ df_defs \in DefSheets
    /\ defs_i = 1
    /\ defs_attributes = <<>>
    /\ defs_error = None
    /\ defs_pc = "columns"

\* if "name" / "type" / "levels" not in df_defs.columns: raise ValueError
DefsMissingColumn ==
    /\ defs_pc = "columns"
    /\ \E c \in {"name", "type", "levels"} : c \notin renamed_columns(df_defs.columns)
    /\ defs_error' = Some("missing_column")
    /\ defs_pc' = "error"
    /\ UNCHANGED <<df_defs, defs_i, defs_attributes, defs_others>>

\* attributes = []
DefsBegin ==
    /\ defs_pc = "columns"
    /\ {"name", "type", "levels"} \subseteq renamed_columns(df_defs.columns)
    /\ defs_pc' = "rows"
    /\ UNCHANGED <<df_defs, defs_i, defs_attributes, defs_error, defs_others>>

\* The loop is at a row.
AtDefRow == defs_pc = "rows" /\ defs_i <= Len(df_defs.rows)

\* if not name or name.lower() == "nan": continue
DefsSkipRow ==
    /\ AtDefRow
    /\ defs_skips(df_defs.rows[defs_i])
    /\ defs_i' = defs_i + 1
    /\ UNCHANGED <<df_defs, defs_attributes, defs_error, defs_pc, defs_others>>

\* if typ != "categorical": raise ValueError
DefsNotCategorical ==
    /\ AtDefRow
    /\ ~defs_skips(df_defs.rows[defs_i])
    /\ defs_typ(df_defs.rows[defs_i]) # Categorical
    /\ defs_error' = Some("not_categorical")
    /\ defs_pc' = "error"
    /\ UNCHANGED <<df_defs, defs_i, defs_attributes, defs_others>>

\* if not isinstance(levels_raw, str) or not levels_raw.strip(): raise ValueError
DefsNoLevels ==
    /\ AtDefRow
    /\ ~defs_skips(df_defs.rows[defs_i])
    /\ defs_typ(df_defs.rows[defs_i]) = Categorical
    /\ defs_no_levels(df_defs.rows[defs_i])
    /\ defs_error' = Some("must_list_levels")
    /\ defs_pc' = "error"
    /\ UNCHANGED <<df_defs, defs_i, defs_attributes, defs_others>>

\* if len(levels) < 2: raise ValueError
DefsTooFewLevels ==
    /\ AtDefRow
    /\ ~defs_skips(df_defs.rows[defs_i])
    /\ defs_typ(df_defs.rows[defs_i]) = Categorical
    /\ ~defs_no_levels(df_defs.rows[defs_i])
    /\ Len(levels_of(df_defs.rows[defs_i].levels.s)) < 2
    /\ defs_error' = Some("at_least_2_levels")
    /\ defs_pc' = "error"
    /\ UNCHANGED <<df_defs, defs_i, defs_attributes, defs_others>>

\* if ref and ref not in levels: raise ValueError
DefsBadReference ==
    /\ AtDefRow
    /\ ~defs_skips(df_defs.rows[defs_i])
    /\ defs_typ(df_defs.rows[defs_i]) = Categorical
    /\ ~defs_no_levels(df_defs.rows[defs_i])
    /\ Len(levels_of(df_defs.rows[defs_i].levels.s)) >= 2
    /\ defs_bad_reference(df_defs.rows[defs_i])
    /\ defs_error' = Some("reference_not_in_levels")
    /\ defs_pc' = "error"
    /\ UNCHANGED <<df_defs, defs_i, defs_attributes, defs_others>>

\* attributes.append({"name": name, "levels": levels, "reference": ref})
DefsAppend ==
    /\ AtDefRow
    /\ ~defs_skips(df_defs.rows[defs_i])
    /\ defs_typ(df_defs.rows[defs_i]) = Categorical
    /\ ~defs_no_levels(df_defs.rows[defs_i])
    /\ Len(levels_of(df_defs.rows[defs_i].levels.s)) >= 2
    /\ ~defs_bad_reference(df_defs.rows[defs_i])
    /\ defs_attributes' = Append(defs_attributes,
          [name |-> defs_name(df_defs.rows[defs_i]),
           levels |-> levels_of(df_defs.rows[defs_i].levels.s),
           reference |-> defs_ref(df_defs.rows[defs_i])])
    /\ defs_i' = defs_i + 1
    /\ UNCHANGED <<df_defs, defs_error, defs_pc, defs_others>>

\* return attributes
DefsReturn ==
    /\ defs_pc = "rows"
    /\ defs_i > Len(df_defs.rows)
    /\ defs_pc' = "done"
    /\ UNCHANGED <<df_defs, defs_i, defs_attributes, defs_error, defs_others>>

NextDefs ==
    \/ DefsMissingColumn
    \/ DefsBegin
    \/ DefsSkipRow
    \/ DefsNotCategorical
    \/ DefsNoLevels
    \/ DefsTooFewLevels
    \/ DefsBadReference
    \/ DefsAppend
    \/ DefsReturn

SpecDefs == InitDefs /\ [][NextDefs]_vars

----------------------------------------------------------------------------
(* Claims about parse_definitions_sheet *)

LevelsABC == <<<<"A">>, <<"B">>, <<"C">>>>

\* The definitions row of an attribute P with levels "A,B,C" and an empty
\* reference cell.
RowABC == [name |-> Str(NameP), type |-> Str(Categorical), levels |-> Str(ABC), reference |-> NaN]

\* The sheet has the required headers and RowABC as its first row.
SheetStartsWithABC ==
    /\ defs_pc \in {"rows", "done", "error"}
    /\ {"name", "type", "levels"} \subseteq renamed_columns(df_defs.columns)
    /\ Len(df_defs.rows) >= 1
    /\ df_defs.rows[1] = RowABC

\* The block effect_code builds for an attribute from a column holding A, C, B.
BlockOf(a) == effect_code(<<Str(<<"A">>), Str(<<"C">>), Str(<<"B">>)>>, a.name, a.levels, a.reference)

\* The attribute is accepted with levels A, B, C, its block has the columns
\* P__A and P__B, and the row of value C is -1.0 in both.
AcceptedAndCoded ==
    /\ SheetStartsWithABC =>
          /\ defs_pc = "error" => defs_i >= 2
          /\ defs_i >= 2 =>
                /\ Len(defs_attributes) >= 1
                /\ defs_attributes[1].name = NameP
                /\ defs_attributes[1].levels = LevelsABC
                /\ BlockOf(defs_attributes[1]).columns = <<column_name(NameP, <<"A">>), column_name(NameP, <<"B">>)>>
                /\ BlockOf(defs_attributes[1]).rows[2] = <<-1, -1>>
                /\ BlockOf(defs_attributes[1]).rows[1] = <<1, 0>>

\* C17 as claimed: ... and the attribute definition returned reports C as
\* its reference.
C17_SchemaReportsReferenceC ==
    /\ AcceptedAndCoded
    /\ (SheetStartsWithABC /\ defs_i >= 2) => defs_attributes[1].reference = Str(<<"C">>)

\* C17: an attribute with levels "A,B,C" and no reference is accepted by
\* parse_definitions_sheet, its design-matrix block has exactly the columns
\* for A and B, rows with value C get -1.0 in both; the reference C is
\* resolved inside effect_code, the attribute definition returned keeps its
\* reference unset.
C17_ReferenceResolvedInCoding ==
    /\ AcceptedAndCoded
    /\ (SheetStartsWithABC /\ defs_i >= 2) =>
          /\ defs_attributes[1].reference = None
          /\ resolved_reference(defs_attributes[1].levels, defs_attributes[1].reference) = <<"C">>

\* The sheet with that one row was parsed.
C17_Witness ==
    /\ defs_pc = "done"
    /\ df_defs.rows = <<RowABC>>
    /\ Len(defs_attributes) = 1

\* Pairwise distinct elements.
Distinct(seq) == \A i, j \in DOMAIN seq : seq[i] = seq[j] => i = j

\* C18: every attribute definition returned by parse_definitions_sheet has
\* pairwise distinct levels and, when its reference is set, a reference that
\* is one of its levels.
C18_LevelsDistinctReferenceInLevels ==
    defs_pc = "done" =>
        \A k \in DOMAIN defs_attributes :
            /\ Distinct(defs_attributes[k].levels)
            /\ defs_attributes[k].reference # None =>
                  defs_attributes[k].reference.s \in Range(defs_attributes[k].levels)

----------------------------------------------------------------------------
(* Floating-point arithmetic of the share functions.  A float is 0 or
   sign * m * 2^e with a mantissa m of Precision bits; every operation
   rounds its exact result to the nearest float, ties to the even mantissa
   (the IEEE 754 rule that Python floats follow, at a shorter mantissa). *)

Precision == 8

RECURSIVE Pow2(_)
Pow2(k) == IF k = 0 THEN 1 ELSE 2 * Pow2(k - 1)

\* The number of bits of a positive integer.
RECURSIVE bit_length(_)
bit_length(n) == IF n = 0 THEN 0 ELSE 1 + bit_length(n \div 2)

FloatZero == [sign |-> 1, m |-> 0, e |-> 0]

\* The float nearest to sign * (n + f) * 2^e, for an integer n >= 1 and a
\* fraction f that is 0, or, when sticky, strictly between 0 and 1.
round_float(sign, n, e, sticky) ==
    LET k == bit_length(n) - Precision
    IN  IF k <= 0
        THEN [sign |-> sign, m |-> n * Pow2(0 - k), e |-> e + k]
        ELSE LET q == n \div Pow2(k)
                 r == n % Pow2(k)
                 half == Pow2(k - 1)
                 up == r > half \/ (r = half /\ (sticky \/ q % 2 = 1))
                 m == IF up THEN q + 1 ELSE q
             IN  IF m = Pow2(Precision)
                 THEN [sign |-> sign, m |-> Pow2(Precision - 1), e |-> e + k + 1]
                 ELSE [sign |-> sign, m |-> m, e |-> e + k]

\* float(n) of an integer.
float_of(n) ==
    IF n = 0 THEN FloatZero
    ELSE round_float(IF n < 0 THEN -1 ELSE 1, IF n < 0 THEN 0 - n ELSE n, 0, FALSE)

\* x + y
float_add(x, y) ==
    IF x.m = 0 THEN y
    ELSE IF y.m = 0 THEN x
    ELSE IF x.e - y.e > Precision + 1 THEN x
    ELSE IF y.e - x.e > Precision + 1 THEN y
    ELSE LET e == IF x.e < y.e THEN x.e ELSE y.e
             n == x.sign * x.m * Pow2(x.e - e) + y.sign * y.m * Pow2(y.e - e)
         IN  IF n = 0 THEN FloatZero
             ELSE round_float(IF n < 0 THEN -1 ELSE 1, IF n < 0 THEN 0 - n ELSE n, e, FALSE)

\* x * y
float_mul(x, y) ==
    IF x.m = 0 \/ y.m = 0 THEN FloatZero
    ELSE round_float(x.sign * y.sign, x.m * y.m, x.e + y.e, FALSE)

\* x / y for y # 0
float_div(x, y) ==
    IF x.m = 0 THEN FloatZero
    ELSE LET n == x.m * Pow2(Precision + 1)
         IN  round_float(x.sign * y.sign, n \div y.m, x.e - y.e - (Precision + 1), n % y.m # 0)

\* x - y
float_sub(x, y) == float_add(x, [y EXCEPT !.sign = 0 - y.sign])

\* x < y
float_less(x, y) == float_sub(x, y).m # 0 /\ float_sub(x, y).sign = -1

\* sum(xs): the additions from left to right, starting at 0.
RECURSIVE float_sum(_, _)
float_sum(xs, acc) == IF Len(xs) = 0 THEN acc ELSE float_sum(Tail(xs), float_add(acc, Head(xs)))

----------------------------------------------------------------------------
(* normalize_market_shares and calculate_market_impact *)

\* normalize_market_shares without the case of a zero total that is not an
\* empty sum: the shares come back as they are.
normalize_market_shares_zero_unchanged(share_list) ==
    LET total == float_sum(share_list, FloatZero)
    IN  IF total.m = 0 THEN share_list
        ELSE [i \in DOMAIN share_list |-> float_div(share_list[i], total)]

\* normalize_market_shares(shares)
normalize_market_shares(share_list) ==
    LET total == float_sum(share_list, FloatZero)
    IN  IF total.m = 0 THEN [i \in DOMAIN share_list |-> FloatZero]
        ELSE [i \in DOMAIN share_list |-> float_div(share_list[i], total)]

\* The sum of the cubes of the shares.
hhi_cubed(share_list) ==
    float_sum([i \in DOMAIN share_list |-> float_mul(share_list[i], float_mul(share_list[i], share_list[i]))], FloatZero)

\* sum(share ** 2 for share in shares)
hhi(share_list) == float_sum([i \in DOMAIN share_list |-> float_mul(share_list[i], share_list[i])], FloatZero)

\* max(changes) if changes else 0, min(changes) if changes else 0
float_max(xs) ==
    IF Len(xs) = 0 THEN FloatZero
    ELSE xs[CHOOSE i \in DOMAIN xs : \A j \in DOMAIN xs : ~float_less(xs[i], xs[j])]
float_min(xs) ==
    IF Len(xs) = 0 THEN FloatZero
    ELSE xs[CHOOSE i \in DOMAIN xs : \A j \in DOMAIN xs : ~float_less(xs[j], xs[i])]

\* calculate_market_impact(original_shares, projected_shares) for equal lengths.
calculate_market_impact(original_shares, projected_shares) ==
    LET changes == [i \in DOMAIN original_shares |-> float_sub(projected_shares[i], original_shares[i])]
    IN  [total_market_change |-> float_sum(changes, FloatZero),
         max_increase |-> float_max(changes),
         max_decrease |-> float_min(changes),
         original_hhi |-> hhi(original_shares),
         projected_hhi |-> hhi(projected_shares),
         concentration_change |-> float_sub(hhi(projected_shares), hhi(original_shares)),
         individual_changes |-> changes]

MaxShares == 3
MaxShare == 6

\* The values of "currentShare" in the request: floats of small integers,
\* a negative one included since the endpoint validates none of them.
ShareValues == {float_of(n) : n \in -1..MaxShare}

ShareVectors == UNION {[1..n -> ShareValues] : n \in 0..MaxShares}

\* The projected shares of the existing products: equal shares of any length.
ProjectedVectors == {[i \in 1..n |-> float_div(float_of(1), float_of(n))] : n \in 1..MaxShares}

InitMarket ==
    /\ IdleDesign
    /\ IdleSim
    /\ IdleParse
    /\ IdleSlots
    /\ IdleEstimate
    /\ IdleDefs
    /\ IdleTransform
    /\ IdleAnalyze
    /\ ms_shares \in ShareVectors
    /\ ms_projected \in ProjectedVectors
    /\ ms_normalized = None
    /\ ms_renormalized = None
    /\ ms_impact = None
    /\ ms_pc = "normalize"

\* normalize_market_shares(shares) where sum(shares) == 0.
NormalizeZeroTotal ==
    /\ ms_pc = "normalize"
    /\ float_sum(ms_shares, FloatZero).m = 0
    /\ ms_normalized' = Some(normalize_market_shares(ms_shares))
    /\ ms_pc' = "renormalize"
    /\ UNCHANGED <<ms_shares, ms_projected, ms_renormalized, ms_impact, ms_others>>

\* normalize_market_shares(shares) where sum(shares) != 0.
NormalizeDivide ==
    /\ ms_pc = "normalize"
    /\ float_sum(ms_shares, FloatZero).m # 0
    /\ ms_normalized' = Some(normalize_market_shares(ms_shares))
    /\ ms_pc' = "renormalize"
    /\ UNCHANGED <<ms_shares, ms_projected, ms_renormalized, ms_impact, ms_others>>

\* normalize_market_shares applied to the vector it returned.
NormalizeAgain ==
    /\ ms_pc = "renormalize"
    /\ ms_renormalized' = Some(normalize_market_shares(ms_normalized.v))
    /\ ms_pc' = "impact"
    /\ UNCHANGED <<ms_shares, ms_projected, ms_normalized, ms_impact, ms_others>>

\* calculate_market_impact: raise ValueError("Original and projected shares
\* must have same length").
ImpactLengthMismatch ==
    /\ ms_pc = "impact"
    /\ Len(ms_normalized.v) # Len(ms_projected)
    /\ ms_pc' = "error"
    /\ UNCHANGED <<ms_shares, ms_projected, ms_normalized, ms_renormalized, ms_impact, ms_others>>

\* calculate_market_impact returns the metrics.
ImpactReturn ==
    /\ ms_pc = "impact"
    /\ Len(ms_normalized.v) = Len(ms_projected)
    /\ ms_impact' = Some(calculate_market_impact(ms_normalized.v, ms_projected))
    /\ ms_pc' = "done"
    /\ UNCHANGED <<ms_shares, ms_projected, ms_normalized, ms_renormalized, ms_others>>

NextMarket ==
    \/ NormalizeZeroTotal
    \/ NormalizeDivide
    \/ NormalizeAgain
    \/ ImpactLengthMismatch
    \/ ImpactReturn

SpecMarket == InitMarket /\ [][NextMarket]_vars

----------------------------------------------------------------------------
(* Claims about normalize_market_shares and the concentration index *)

\* |x| as an integer number of units 2^-(Precision + Slack), for a float that
\* is a multiple of that unit.
Slack == 4
in_units(x) == x.m * Pow2(x.e + Precision + Slack)
UnitsInOne == Pow2(Precision + Slack)
RoundingUnit == Pow2(Slack)

Abs(n) == IF n < 0 THEN 0 - n ELSE n

NonNegative(xs) == \A i \in DOMAIN xs : xs[i].sign = 1
Total(xs) == float_sum(xs, FloatZero)
Zeros(n) == [i \in 1..n |-> FloatZero]

\* |x - y| <= k units in the last place of y.
Within(x, y, k) ==
    LET e == IF x.m = 0 \/ x.e > y.e THEN y.e ELSE x.e
        d == x.sign * x.m * Pow2(IF x.m = 0 THEN 0 ELSE x.e - e) - y.sign * y.m * Pow2(y.e - e)
    IN  Abs(d) <= k * Pow2(y.e - e)

NormalizedTwice == ms_normalized # None /\ ms_renormalized # None

\* C19 (as stated): normalizing the normalized vector returns the same
\* vector, a zero-sum vector maps to the all-zero vector of its length, and
\* any other vector maps to one whose sum is 1.
C19_NormalizeIdempotentSumsToOne ==
    NormalizedTwice =>
        /\ ms_renormalized.v = ms_normalized.v
        /\ IF Total(ms_shares).m = 0
           THEN ms_normalized.v = Zeros(Len(ms_shares))
           ELSE Total(ms_normalized.v) = float_of(1)

\* C19 (amended): a zero-sum vector maps to the all-zero vector of its length
\* and normalizing again returns it; normalizing again returns the same
\* vector whenever the normalized vector sums to exactly 1; and for
\* non-negative shares with a positive sum the normalized vector sums to 1
\* within n rounding units and normalizing again moves every share by at
\* most n + 1 units in its last place.
C19_NormalizeIdempotentUpToRounding ==
    NormalizedTwice =>
        LET n == Len(ms_shares)
            y == ms_normalized.v
            z == ms_renormalized.v
            s == Total(y)
        IN  /\ Len(y) = n /\ Len(z) = n
            /\ Total(ms_shares).m = 0 => y = Zeros(n) /\ z = y
            /\ Total(ms_shares).m # 0 /\ s = float_of(1) => z = y
            /\ Total(ms_shares).m # 0 /\ NonNegative(ms_shares) =>
                /\ s.sign = 1 /\ s.e + Precision + Slack >= 0
                /\ Abs(in_units(s) - UnitsInOne) <= n * RoundingUnit
                /\ \A i \in 1..n : Within(z[i], y[i], n + 1)

\* Normalizing the normalized vector of non-negative shares changed it, and
\* the normalized vector does not sum to exactly 1.
C19_Witness ==
    /\ NormalizedTwice
    /\ NonNegative(ms_shares)
    /\ Total(ms_shares).m # 0
    /\ Total(ms_normalized.v) # float_of(1)
    /\ ms_renormalized.v # ms_normalized.v

\* C20 (as stated): the index of every vector of length n >= 1 returned by
\* normalize_market_shares satisfies 1/n <= HHI <= 1.
C20_HhiBetweenReciprocalAndOne ==
    ms_impact # None /\ Len(ms_shares) >= 1 =>
        LET h == ms_impact.v.original_hhi
        IN  /\ h.sign = 1
            /\ h.m # 0 /\ h.e + Precision + Slack >= 0
            /\ Len(ms_shares) * in_units(h) >= UnitsInOne
            /\ in_units(h) <= UnitsInOne

\* C20 (amended): for non-negative shares with a positive sum, the index of
\* the normalized vector satisfies 1/n <= HHI <= 1 within n + 2 rounding
\* units; the all-zero vector returned for a zero sum has index 0.
C20_HhiBoundsForPositiveTotal ==
    ms_impact # None /\ Len(ms_shares) >= 1 =>
        LET h == ms_impact.v.original_hhi
            n == Len(ms_shares)
        IN  /\ Total(ms_shares).m = 0 => h = FloatZero
            /\ Total(ms_shares).m # 0 /\ NonNegative(ms_shares) =>
                /\ h.sign = 1
                /\ h.m # 0 /\ h.e + Precision + Slack >= 0
                /\ n * in_units(h) >= UnitsInOne - (n + 2) * RoundingUnit
                /\ in_units(h) <= UnitsInOne + (n + 2) * RoundingUnit

\* The index of unequal positive shares was computed and lies strictly
\* between 1/n and 1.
C20_Witness ==
    /\ ms_impact # None
    /\ Len(ms_shares) >= 2
    /\ NonNegative(ms_shares)
    /\ \E i, j \in DOMAIN ms_shares : ms_shares[i].m # 0 /\ ms_shares[j].m # 0 /\ ms_shares[i] # ms_shares[j]
    /\ LET h == ms_impact.v.original_hhi
       IN  /\ h.e + Precision + Slack >= 0
           /\ Len(ms_shares) * in_units(h) > UnitsInOne
           /\ in_units(h) < UnitsInOne

----------------------------------------------------------------------------
(* parse_survey_export_to_long: the tasks it reads and the "none" row *)

\* The (resp_id, task) pairs whose choice cell "row[choice_col]" the loops
\* have read so far: the iterations done whose column QC1_task exists.
tasks_read ==
    {<<r, t>> \in (1..df_wide.n_rows) \X (1..n_tasks) :
        /\ t \in df_wide.choice_cols
        /\ r - 1 < resp_idx \/ (r - 1 = resp_idx /\ t < task_num)}

\* Both loops have run to their end.
LoopsOver == parse_pc \in {"loop", "done", "error"} /\ n_tasks > 0 /\ n_alts > 0 /\ resp_idx >= df_wide.n_rows

\* The group has a row for the "none" alternative, alt_id = n_alts + 1.
HasNoneRow(g) == \E i \in GroupRows(g) : long_data[i].alt_id = n_alts + 1

\* C28: a "none" row (alt_id = number of real alternatives + 1) is in the
\* rows of a (respondent, task) if and only if that task's own choice index
\* exceeds the number of real alternatives, whatever was chosen in the tasks
\* and respondents processed before it.
C28_NoneRowOnlyForOwnChoice ==
    \A g \in DOMAIN task_choice : HasNoneRow(g) <=> task_choice[g] > n_alts

\* C29: once the loops are over, the choice cell of every respondent has been
\* read for every k whose column QC1_k exists, also when the task numbers
\* present are not 1..n.
C29_EveryChoiceColumnIsRead ==
    LoopsOver =>
        \A r \in 1..df_wide.n_rows : \A k \in df_wide.choice_cols : <<r, k>> \in tasks_read

----------------------------------------------------------------------------
(* Claims about the resolution of a slot's attribute definition *)

\* The attribute number of the header cell, and the one inferred from the
\* level code (all characters but the last).
header_attr_no(slot) ==
    IF slot.header = None \/ slot.header = NaN THEN <<>> ELSE strip(str_of(slot.header))
inferred_attr_no(slot) ==
    LET normalized == normalize_code(slot.value)
    IN  IF Len(normalized) > 1 THEN SubSeq(normalized, 1, Len(normalized) - 1) ELSE <<>>

\* The definition of a slot in the order (1) header number, (2) inferred
\* number, (3) alternative identifier, each step tried when the one before
\* it yields no definition.
ResolvedInOrder(slot) ==
    IF Len(header_attr_no(slot)) > 0 /\ header_attr_no(slot) \in DOMAIN design_lookup_by_no
    THEN Some(design_lookup_by_no[header_attr_no(slot)])
    ELSE IF Len(inferred_attr_no(slot)) > 0 /\ inferred_attr_no(slot) \in DOMAIN design_lookup_by_no
    THEN Some(design_lookup_by_no[inferred_attr_no(slot)])
    ELSE IF slot.brand \in DOMAIN design_lookup THEN Some(design_lookup[slot.brand])
    ELSE None

\* C24: every populated slot gets its attribute value from the definition
\* found by the header number, else by the number inferred from the level
\* code, else by the alternative identifier, the inferred number being tried
\* whenever the header number yields no definition; a slot for which all
\* three fail contributes no attribute value.
C24_ResolutionOrder ==
    \A i \in DOMAIN alt_attrs :
        ~raw_value_missing(alt_slots[i]) =>
            LET slot == alt_slots[i]
                entry == ResolvedInOrder(slot)
            IN  IF entry = None THEN alt_attrs[i] = <<>>
                ELSE /\ DOMAIN alt_attrs[i] # {}
                     /\ \A name \in DOMAIN alt_attrs[i] :
                           /\ name = slot_schema_name(slot, slot.brand, entry.v)
                           /\ alt_attrs[i][name] = slot_level_name(slot, entry.v)

----------------------------------------------------------------------------
(* Claims about the command-line pipeline *)

\* estimate_from_survey_export returns for the fit result: the fit returned
\* and its log-likelihood passes the test for numerical issues.
ServiceSucceeds == est_res # None /\ ~numerical_issue(est_res.v.llf)

\* C25: a call of the command-line pipeline that has ended succeeded if and
\* only if estimate_from_survey_export succeeds on the same design matrix
\* and fit result, and then with the payload the service returns.
C25_CliMirrorsService ==
    (est_req.flow = "cli" /\ est_pc \in {"done", "error"}) =>
        /\ est_response # None <=> ServiceSucceeds
        /\ est_response # None => est_response.v = payload(est_X.v, est_res.v)

----------------------------------------------------------------------------
(* _sanitize_identifier and _transform_flat_attributes *)

Digits == {"0", "1", "2", "3", "4", "5", "6", "7", "8", "9"}
Letters == {"a", "b", "A", "B", "T"}

\* value.strip() and re.sub(r"\s+", "_", ...): the whitespace of the model is " ".
RECURSIVE spaces_to_underscore(_)
spaces_to_underscore(t) ==
    IF Len(t) = 0 THEN <<>>
    ELSE IF Head(t) = " "
    THEN <<"_">> \o spaces_to_underscore(lstrip(Tail(t)))
    ELSE <<Head(t)>> \o spaces_to_underscore(Tail(t))

\* re.sub(r"[^a-zA-Z0-9_]", "_", cleaned)
other_to_underscore(t) ==
    [i \in DOMAIN t |-> IF t[i] \in Letters \cup Digits \cup {"_"} THEN t[i] ELSE "_"]

\* re.sub(r"_+", "_", cleaned)
RECURSIVE collapse_underscores(_)
collapse_underscores(t) ==
    IF Len(t) = 0 THEN <<>>
    ELSE IF Head(t) = "_" /\ Len(t) > 1 /\ t[2] = "_" THEN collapse_underscores(Tail(t))
    ELSE <<Head(t)>> \o collapse_underscores(Tail(t))

\* cleaned.strip("_")
RECURSIVE strip_underscores(_)
strip_underscores(t) ==
    IF Len(t) > 0 /\ Head(t) = "_" THEN strip_underscores(Tail(t))
    ELSE IF Len(t) > 0 /\ t[Len(t)] = "_" THEN strip_underscores(SubSeq(t, 1, Len(t) - 1))
    ELSE t

\* _sanitize_identifier(value, fallback) for a str value, one substitution
\* after the other.
sanitize_identifier(value, fallback) ==
    CHOOSE r \in
        {IF Len(c5) > 0 THEN c5 ELSE fallback :
            c5 \in {upper(c4) :
            c4 \in {strip_underscores(c3) :
            c3 \in {collapse_underscores(c2) :
            c2 \in {other_to_underscore(c1) :
            c1 \in {spaces_to_underscore(c0) :
            c0 \in {strip(value)}}}}}}} : TRUE

\* f"ATT{idx + 1:02d}"
fallback_name(idx) ==
    <<"A", "T", "T">> \o (IF idx + 1 < 10 THEN <<"0">> ELSE <<>>) \o digits(idx + 1)

\* f"{base}_{attempt}"
suffixed(base, attempt) == base \o <<"_">> \o digits(attempt)

\* str(item["code"]).isdigit()
isdigit(code) == Len(code) > 0 /\ \A i \in DOMAIN code : code[i] \in Digits

\* float(item["code"]) of an all-digit code, as the integer it denotes.
RECURSIVE code_number(_)
code_number(code) ==
    IF Len(code) = 0 THEN 0
    ELSE 10 * code_number(SubSeq(code, 1, Len(code) - 1))
         + (CHOOSE d \in 0..9 : Digit(d) = code[Len(code)])

\* level_no: levelNo "or" levelNumber (absent in the model) makes 0 and None
\* alike; float(str(level_no_raw).strip()) of anything else.
level_no_of(rec) ==
    IF rec.levelNo = None THEN None
    ELSE IF rec.levelNo.n = 0 THEN None
    ELSE Some(rec.levelNo.n)

\* grouped after the records of flat_attributes (lines 50-80).
RECURSIVE grouped_of(_, _)
grouped_of(flat, acc) ==
    IF Len(flat) = 0 THEN acc
    ELSE LET attr == Head(flat)
             attr_no == strip(attr.attributeNo)
             code == strip(attr.code)
             level_text == strip(attr.levelText)
             attr_text == strip(attr.attributeText)
             bucket == IF attr_no \in DOMAIN acc THEN acc[attr_no]
                       ELSE [attributeNo |-> attr_no, attributeText |-> attr_text, levels |-> <<>>]
             named == IF Len(attr_text) > 0 /\ Len(bucket.attributeText) = 0
                      THEN [bucket EXCEPT !.attributeText = attr_text] ELSE bucket
             filled == IF Len(code) > 0 /\ Len(level_text) > 0
                       THEN [named EXCEPT !.levels = Append(@, [code |-> code, level |-> level_text,
                                                                 levelNo |-> level_no_of(attr)])]
                       ELSE named
         IN  IF Len(attr_no) = 0 THEN grouped_of(Tail(flat), acc)
             ELSE grouped_of(Tail(flat), (attr_no :> filled) @@ acc)

\* sorted(grouped.keys(), key=lambda x: float(x)) for keys that are digits.
RECURSIVE sorted_keys(_)
sorted_keys(keys) ==
    IF keys = {} THEN <<>>
    ELSE LET k == CHOOSE x \in keys : \A y \in keys : code_number(x) <= code_number(y)
         IN  <<k>> \o sorted_keys(keys \ {k})

\* The first component of the sort key is the level number, or float("inf").
same_level_key(a, b) ==
    IF a.levelNo = None \/ b.levelNo = None THEN a.levelNo = b.levelNo
    ELSE a.levelNo.v = b.levelNo.v
level_key_less(a, b) ==
    IF a.levelNo = None THEN FALSE
    ELSE IF b.levelNo = None THEN TRUE
    ELSE a.levelNo.v < b.levelNo.v

\* The comparison of two keys raises TypeError: the first components are
\* equal and the second are a float and a str.  A sort cannot order the
\* items of equal first component without comparing such a pair.
sort_raises(levels) ==
    \E i, j \in DOMAIN levels :
        same_level_key(levels[i], levels[j]) /\ isdigit(levels[i].code) /\ ~isdigit(levels[j].code)

\* key(a) < key(b) for keys that compare.
key_less(a, b) ==
    \/ level_key_less(a, b)
    \/ /\ same_level_key(a, b)
       /\ IF isdigit(a.code) THEN code_number(a.code) < code_number(b.code)
          ELSE str_less(a.code, b.code)

\* sorted(entry["levels"], key=...): stable.
RECURSIVE insert_level(_, _)
insert_level(done, item) ==
    IF Len(done) = 0 THEN <<item>>
    ELSE IF key_less(item, done[Len(done)])
    THEN Append(insert_level(SubSeq(done, 1, Len(done) - 1), item), done[Len(done)])
    ELSE Append(done, item)
RECURSIVE levels_sorted(_, _)
levels_sorted(levels, done) ==
    IF Len(levels) = 0 THEN done
    ELSE CHOOSE r \in {levels_sorted(Tail(levels), d) : d \in {insert_level(done, Head(levels))}} : TRUE

\* The definition appended to result for one bucket.
grouped_definition(entry, nm) ==
    CHOOSE definition \in
        {[name |-> nm,
          label |-> IF Len(entry.attributeText) > 0 THEN entry.attributeText ELSE nm,
          attributeNo |-> entry.attributeNo,
          levels |-> [i \in DOMAIN sorted_levels |->
                         [code |-> sorted_levels[i].code, level |-> sorted_levels[i].level]],
          reference |-> IF Len(sorted_levels) > 0
                        THEN Some(sorted_levels[Len(sorted_levels)].level) ELSE None] :
            sorted_levels \in {levels_sorted(entry.levels, <<>>)}} : TRUE

----------------------------------------------------------------------------
(* Inputs of _transform_flat_attributes *)

\* The most flat records of a call.
MaxFlat == 3

\* A flat record of attribute number no with a code and a level number; its
\* level text names both.
FlatLevel(no, code, levelNo) ==
    [attributeNo |-> no, attributeText |-> <<>>, code |-> code,
     levelText |-> <<"L">> \o code \o <<"n">> \o (IF levelNo = None THEN <<>> ELSE digits(levelNo.n)),
     levelNo |-> levelNo]

\* Records of attribute 1 without a level number (codes 10, 2, A, B), with
\* level numbers 2, 1 and 0, one record each of attributes 2 and 3, a record
\* without attribute number and one without code.
FlatRecords ==
    {FlatLevel(<<"1">>, c, None) : c \in {<<"1", "0">>, <<"2">>, <<"A">>, <<"B">>}}
    \cup {FlatLevel(<<"1">>, <<"2">>, IntCell(2)), FlatLevel(<<"1">>, <<"1", "0">>, IntCell(1)),
          FlatLevel(<<"1">>, <<"2">>, IntCell(0))}
    \cup {FlatLevel(<<"2">>, <<"2">>, None), FlatLevel(<<"3">>, <<"2">>, None)}
    \cup {FlatLevel(<<" ">>, <<"2">>, None),
          [attributeNo |-> <<"2">>, attributeText |-> <<"b">>, code |-> <<>>, levelText |-> <<"L">>, levelNo |-> None]}

FlatLists == UNION {[1..n -> FlatRecords] : n \in 0..MaxFlat}

\* Lists of short names: none; a repeated name around one that already
\* carries the suffix the collision loop produces; names that sanitize to
\* "A_B" and to nothing, and one equal to the fallback given before it.
ShortNameLists ==
    { <<>>,
      <<<<"A">>, <<"A", "_", "2">>, <<"A">>>>,
      <<<<" ", "a", " ", " ", "b", "-">>, <<"-", "_">>, <<"A", "T", "T", "0", "2">>>> }

----------------------------------------------------------------------------
(* _transform_flat_attributes: the grouping, then one step per attribute
   number and per turn of the collision loop *)

InitTransform ==
    /\ IdleDesign
    /\ IdleSim
    /\ IdleParse
    /\ IdleSlots
    /\ IdleEstimate
    /\ IdleDefs
    /\ IdleMarket
    /\ IdleAnalyze
    /\ tf_flat \in FlatLists
    /\ tf_short_names \in ShortNameLists
    /\ tf_grouped = <<>>
    /\ tf_idx = 0
    /\ tf_name = None
    /\ tf_used_names = {}
    /\ tf_result = <<>>
    /\ tf_error = None
    /\ tf_pc = "group"

\* The attribute numbers in the order of the second loop.
tf_keys == sorted_keys(DOMAIN tf_grouped)

\* for attr in flat_attributes or []: ...
TfGroup ==
    /\ tf_pc = "group"
    /\ tf_grouped' = grouped_of(tf_flat, <<>>)
    /\ tf_pc' = "name"
    /\ UNCHANGED <<tf_flat, tf_short_names, tf_idx, tf_name, tf_used_names, tf_result, tf_error,
                   tf_others>>

\* candidate = attribute_short_names[idx] if idx < len(attribute_short_names) else ""
\* name = _sanitize_identifier(candidate, f"ATT{idx + 1:02d}")
candidate_name ==
    sanitize_identifier(IF tf_idx < Len(tf_short_names) THEN tf_short_names[tf_idx + 1] ELSE <<>>,
                        fallback_name(tf_idx))

\* name = _sanitize_identifier(...); base = name; attempt = 1
TfCandidate ==
    /\ tf_pc = "name"
    /\ tf_idx < Len(tf_keys)
    /\ tf_name' = Some([base |-> candidate_name, name |-> candidate_name, attempt |-> 1])
    /\ tf_pc' = "collide"
    /\ UNCHANGED <<tf_flat, tf_short_names, tf_grouped, tf_idx, tf_used_names, tf_result, tf_error,
                   tf_others>>

\* while name in used_names: attempt += 1; name = f"{base}_{attempt}"
TfCollide ==
    /\ tf_pc = "collide"
    /\ tf_name.v.name \in tf_used_names
    /\ tf_name' = Some([base |-> tf_name.v.base,
                        name |-> suffixed(tf_name.v.base, tf_name.v.attempt + 1),
                        attempt |-> tf_name.v.attempt + 1])
    /\ UNCHANGED <<tf_flat, tf_short_names, tf_grouped, tf_idx, tf_used_names, tf_result, tf_error,
                   tf_pc, tf_others>>

\* used_names.add(name); sorted(entry["levels"], key=...) raises TypeError
TfSortRaises ==
    /\ tf_pc = "collide"
    /\ tf_name.v.name \notin tf_used_names
    /\ \E entry \in {tf_grouped[tf_keys[tf_idx + 1]]} :
          /\ sort_raises(entry.levels)
    /\ tf_used_names' = tf_used_names \cup {tf_name.v.name}
    /\ tf_error' = Some("TypeError")
    /\ tf_pc' = "error"
    /\ UNCHANGED <<tf_flat, tf_short_names, tf_grouped, tf_idx, tf_name, tf_result, tf_others>>

\* The definition appended under a name whether it is in used_names or not.
TfAppendUnchecked ==
    /\ tf_pc = "collide"
    /\ \E entry \in {tf_grouped[tf_keys[tf_idx + 1]]} :
          /\ ~sort_raises(entry.levels)
          /\ tf_result' = Append(tf_result, grouped_definition(entry, tf_name.v.name))
    /\ tf_used_names' = tf_used_names \cup {tf_name.v.name}
    /\ tf_idx' = tf_idx + 1
    /\ tf_pc' = "name"
    /\ UNCHANGED <<tf_flat, tf_short_names, tf_grouped, tf_name, tf_error, tf_others>>

\* used_names.add(name); levels_sorted = ...; result.append({...})
TfAppend ==
    /\ tf_pc = "collide"
    /\ tf_name.v.name \notin tf_used_names
    /\ \E entry \in {tf_grouped[tf_keys[tf_idx + 1]]} :
          /\ ~sort_raises(entry.levels)
          /\ tf_result' = Append(tf_result, grouped_definition(entry, tf_name.v.name))
    /\ tf_used_names' = tf_used_names \cup {tf_name.v.name}
    /\ tf_idx' = tf_idx + 1
    /\ tf_pc' = "name"
    /\ UNCHANGED <<tf_flat, tf_short_names, tf_grouped, tf_name, tf_error, tf_others>>

\* return result
TfReturn ==
    /\ tf_pc = "name"
    /\ tf_idx >= Len(tf_keys)
    /\ tf_pc' = "done"
    /\ UNCHANGED <<tf_flat, tf_short_names, tf_grouped, tf_idx, tf_name, tf_used_names, tf_result,
                   tf_error, tf_others>>

NextTransform ==
    \/ TfGroup
    \/ TfCandidate
    \/ TfCollide
    \/ TfSortRaises
    \/ TfAppend
    \/ TfReturn

\* The function runs to its end: no step waits for anything.
SpecTransform ==
    /\ InitTransform
    /\ [][NextTransform]_vars
    /\ WF_vars(TfGroup)
    /\ WF_vars(TfCandidate)
    /\ WF_vars(TfCollide)
    /\ WF_vars(TfSortRaises)
    /\ WF_vars(TfAppend)
    /\ WF_vars(TfReturn)

----------------------------------------------------------------------------
(* Claims about _transform_flat_attributes *)

\* The level number given in the flat record of an emitted level.
GivenLevelNo(lv) ==
    (CHOOSE rec \in Range(tf_flat) : strip(rec.code) = lv.code /\ strip(rec.levelText) = lv.level).levelNo

\* Level a may stand before level b: by ascending level number, a level
\* without number after those with one, ties by code, numerically between
\* all-digit codes and lexically between others.
MayPrecede(a, b) ==
    LET na == GivenLevelNo(a)
        nb == GivenLevelNo(b)
    IN  IF na # None /\ nb # None /\ na # nb THEN na.n < nb.n
        ELSE IF na = None /\ nb # None THEN FALSE
        ELSE IF na # None /\ nb = None THEN TRUE
        ELSE IF isdigit(a.code) /\ isdigit(b.code) THEN code_number(a.code) <= code_number(b.code)
        ELSE IF ~isdigit(a.code) /\ ~isdigit(b.code) THEN ~str_less(b.code, a.code)
        ELSE TRUE

\* C26: the call emits the levels of each attribute in ascending level-number
\* order, levels without a level number after those with one, ties broken by
\* code (numerically for all-digit codes, lexically otherwise), and the
\* reference of the attribute is the level text of the last level; ordering
\* the levels does not fail.
C26_LevelsInLevelNumberOrder ==
    /\ tf_error = None
    /\ \A k \in DOMAIN tf_result :
          LET levels == tf_result[k].levels
          IN  /\ \A i \in 1..(Len(levels) - 1) : MayPrecede(levels[i], levels[i + 1])
              /\ tf_result[k].reference =
                    (IF Len(levels) > 0 THEN Some(levels[Len(levels)].level) ELSE None)

Sanitized(nm) == Len(nm) > 0 /\ \A i \in DOMAIN nm : nm[i] \in {"A", "B", "T", "_"} \cup Digits

\* The names given so far are sanitized and pairwise distinct, one per name
\* in use, and the collision loop has made at most one turn per name in use.
NamesDistinct ==
    /\ \A i \in DOMAIN tf_result : Sanitized(tf_result[i].name)
    /\ \A i, j \in DOMAIN tf_result : tf_result[i].name = tf_result[j].name => i = j
    /\ tf_used_names = {tf_result[i].name : i \in DOMAIN tf_result}
          \cup (IF tf_pc = "error" THEN {tf_name.v.name} ELSE {})
    /\ tf_name # None => tf_name.v.attempt <= Cardinality(tf_used_names) + 1

\* C27: the collision loop terminates and the call comes to its end, and then
\* every attribute group of the result has a non-empty sanitized name and
\* the names of the groups are pairwise distinct, whatever the short names
\* (repeated ones and ones that carry a numeric suffix included).
C27_NamesDistinctLoopTerminates == <>(tf_pc \in {"done", "error"} /\ NamesDistinct)

\* Three groups were named from the short names A, A_2, A: the third went
\* twice round the collision loop.
C27_Witness ==
    /\ tf_pc = "done"
    /\ Len(tf_result) = 3
    /\ Len(tf_short_names) = 3
    /\ tf_short_names[2] = <<"A", "_", "2">>
    /\ tf_result[3].name = <<"A", "_", "3">>
    /\ tf_name.v.attempt = 3

----------------------------------------------------------------------------
(* np.log and np.exp on floats.  The value is computed in fixed point with
   20 fractional bits and rounded to a float; the result is within
   one unit in the last place of the exact value, as numpy's is. *)

FixedOne == Pow2(20)
FixedHalf == Pow2(10)

\* Rounded quotient of non-negative integers.
div_round(a, b) == (a + b \div 2) \div b

\* a * b in fixed point for 0 <= a, b <= FixedOne, without leaving 32 bits.
mulfix(a, b) ==
    ((a \div FixedHalf) * b + ((a % FixedHalf) * b) \div FixedHalf + FixedHalf \div 2) \div FixedHalf

\* z + z^3/3 + z^5/5 + ... from the term z^k on.
RECURSIVE atanh_terms(_, _, _, _)
atanh_terms(power, z2, k, acc) ==
    IF power = 0 THEN acc
    ELSE atanh_terms(mulfix(power, z2), z2, k + 2, acc + div_round(power, k))

fixed_atanh(z) == atanh_terms(z, mulfix(z, z), 1, 0)

\* ln 2 = 2 atanh(1/3)
Ln2 == 2 * fixed_atanh(div_round(FixedOne, 3))

\* np.log(x) for a float x > 0: ln(m 2^e) = (e + p - 1) ln 2 + ln(m / 2^(p-1)),
\* and ln t = 2 atanh((t - 1) / (t + 1)).
float_log(x) ==
    LET h == Pow2(Precision - 1)
        l == (x.e + Precision - 1) * Ln2
                + 2 * fixed_atanh(div_round((x.m - h) * FixedOne, x.m + h))
    IN  IF l = 0 THEN FloatZero
        ELSE round_float(IF l < 0 THEN -1 ELSE 1, IF l < 0 THEN 0 - l ELSE l, -20, FALSE)

\* 1 - r + r^2/2 - r^3/6 + ... from the term r^(n-1)/(n-1)! on.
RECURSIVE exp_terms(_, _, _, _, _)
exp_terms(term, r, n, sign, acc) ==
    IF term = 0 THEN acc
    ELSE exp_terms(div_round(mulfix(term, r), n), r, n + 1, 0 - sign, acc + sign * term)

\* |x| >= n for a float x and an integer n >= 1
magnitude_at_least(x, n) ==
    x.m # 0 /\ (IF x.e >= 0 THEN x.e > 31 - Precision \/ x.m * Pow2(x.e) >= n
                ELSE x.e > 0 - 31 /\ x.m \div Pow2(0 - x.e) >= n)

\* |x| in fixed point, for |x| < ExpUnderflow
to_fixed(x) ==
    IF x.e + 20 >= 0 THEN x.m * Pow2(x.e + 20)
    ELSE IF x.e + 20 < 0 - 31 THEN 0
    ELSE x.m \div Pow2(0 - (x.e + 20))

\* np.exp(x) for a float x <= 0: exp(-a) = 2^(-k) exp(-r) with a = k ln 2 + r.
\* The result is 0.0 from ExpUnderflow on, as it is for a double.
float_exp(x) ==
    IF x.m = 0 THEN float_of(1)
    ELSE IF magnitude_at_least(x, ExpUnderflow) THEN FloatZero
    ELSE LET a == to_fixed(x)
             k == a \div Ln2
             r == a % Ln2
         IN  round_float(1, exp_terms(FixedOne, r, 1, 1, 0), 0 - 20 - k, FALSE)

----------------------------------------------------------------------------
(* analyze_scenarios *)

\* existing_utilities with the share itself taken as the utility (no logarithm).
existing_utilities_no_log(original_shares_normalized) ==
    [i \in DOMAIN original_shares_normalized |->
        IF float_less(FloatZero, original_shares_normalized[i])
        THEN original_shares_normalized[i]
        ELSE float_of(-10)]

\* existing_utilities: np.log(share) if share > 0 else -10
existing_utilities(original_shares_normalized) ==
    [i \in DOMAIN original_shares_normalized |->
        IF float_less(FloatZero, original_shares_normalized[i])
        THEN float_log(original_shares_normalized[i])
        ELSE float_of(-10)]

\* int(np.argmax(x)) on floats: the first maximum (1-based).
float_argmax(x) ==
    CHOOSE i \in DOMAIN x :
        /\ \A j \in DOMAIN x : ~float_less(x[i], x[j])
        /\ \A j \in 1..(i - 1) : float_less(x[j], x[i])

\* softmax on floats with the exponentials divided by the largest of them.
float_softmax_by_max(x) ==
    LET m == float_max(x)
        ex == [i \in DOMAIN x |-> float_exp(float_sub(x[i], m))]
    IN  [i \in DOMAIN x |-> float_div(ex[i], float_max(ex))]

\* softmax(x) on floats: m = np.max(x); ex = np.exp(x - m); ex / np.sum(ex)
float_softmax(x) ==
    LET m == float_max(x)
        ex == [i \in DOMAIN x |-> float_exp(float_sub(x[i], m))]
        total == float_sum(ex, FloatZero)
    IN  [i \in DOMAIN x |-> float_div(ex[i], total)]

\* project_market_shares_with_new_product for the rules "logit" and "first_choice"
project_market_shares_with_new_product(new_product_utility, existing, rule) ==
    LET all == existing \o <<new_product_utility>>
    IN  IF rule = "logit" THEN float_softmax(all)
        ELSE [i \in DOMAIN all |-> IF i = float_argmax(all) THEN float_of(1) ELSE FloatZero]

\* The body of "for idx, new_scenario in enumerate(req.new_scenarios)": the
\* projected shares of one scenario.
projected_shares_of(request, original_shares_normalized, new_scenario) ==
    project_market_shares_with_new_product(
        float_of(scenario_utilities(<<new_scenario>>, request.utilities, request.intercept)[1]),
        existing_utilities(original_shares_normalized),
        request.rule)

\* x > 0
float_positive(x) == x.m # 0 /\ x.sign = 1

\* market_impact for the first projected scenario (lines 710-719)
market_impact_of(original_shares_normalized, first_projected) ==
    LET n == Len(original_shares_normalized)
        imp == calculate_market_impact(original_shares_normalized, SubSeq(first_projected, 1, n))
    IN  [total_market_change |-> imp.total_market_change,
         max_increase |-> imp.max_increase,
         max_decrease |-> imp.max_decrease,
         original_hhi |-> imp.original_hhi,
         projected_hhi |-> imp.projected_hhi,
         concentration_change |-> imp.concentration_change,
         individual_changes |-> imp.individual_changes,
         new_product_share |-> first_projected[n + 1],
         market_expansion |-> float_positive(first_projected[n + 1])]

----------------------------------------------------------------------------
(* Inputs of analyze_scenarios *)

\* The latest instant of the clock.
MaxClock == 1

\* Utility tables: P with the explicit levels A and B (C is the reference)
\* together with B with the explicit level X, and P alone.
AnalyzeUtilityTables ==
    {[a \in {NameP, NameB} |->
         IF a = NameP THEN [l \in {<<"A">>, <<"B">>} |-> IF l = <<"A">> THEN 2 ELSE -1]
         ELSE [l \in {<<"X">>} |-> 1]],
     [a \in {NameP} |-> [l \in {<<"A">>, <<"B">>} |-> IF l = <<"A">> THEN -9 ELSE 0]]}

\* New-product scenarios: one that gives P only, one that gives P and B by
\* their reference and explicit levels.
AnalyzeScenarios ==
    {[a \in {NameP} |-> <<"A">>],
     [a \in {NameP, NameB} |-> IF a = NameP THEN <<"C">> ELSE <<"X">>]}

\* The values of "currentShare": the endpoint validates none of them.
CurrentShares == {float_of(n) : n \in {-1, 0, 1, 3}}

AnalyzeRequests ==
    [intercept : {0},
     utilities : AnalyzeUtilityTables,
     original_market_shares : UNION {[1..n -> CurrentShares] : n \in 0..MaxProducts},
     new_scenarios : UNION {[1..n -> AnalyzeScenarios] : n \in 0..MaxScenarios},
     rule : Rules]

----------------------------------------------------------------------------
(* analyze_scenarios: the steps of one call, and the calls that follow it *)

InitAnalyze ==
    /\ IdleDesign
    /\ IdleSim
    /\ IdleParse
    /\ IdleSlots
    /\ IdleEstimate
    /\ IdleDefs
    /\ IdleMarket
    /\ IdleTransform
    /\ an_req \in AnalyzeRequests
    /\ an_original = None
    /\ an_idx = 0
    /\ an_projected = <<>>
    /\ an_impact = None
    /\ an_response = None
    /\ an_clock = 0
    /\ an_last = None
    /\ an_pc = "start"

\* Lines 630-653: the shares of the request are normalized.
AnNormalize ==
    /\ an_pc = "start"
    /\ an_original' = Some(normalize_market_shares(an_req.original_market_shares))
    /\ an_idx' = 1
    /\ an_pc' = "loop"
    /\ UNCHANGED <<an_req, an_projected, an_impact, an_response, an_clock, an_last, an_others>>

\* Lines 658-705: one scenario is projected.  No attribute of the scenario is
\* looked for: scenario_utilities adds what the scenario names.
AnProject ==
    /\ an_pc = "loop"
    /\ an_idx <= Len(an_req.new_scenarios)
    /\ an_req.rule \in {"logit", "first_choice"}
    /\ an_projected' = Append(an_projected,
            projected_shares_of(an_req, an_original.v, an_req.new_scenarios[an_idx]))
    /\ an_idx' = an_idx + 1
    /\ UNCHANGED <<an_req, an_original, an_impact, an_response, an_clock, an_last, an_pc, an_others>>

\* Lines 295-296 and 734-736: ValueError("Unknown choice rule") becomes HTTP 400.
AnUnknownRule ==
    /\ an_pc = "loop"
    /\ an_idx <= Len(an_req.new_scenarios)
    /\ an_req.rule \notin {"logit", "first_choice"}
    /\ an_response' = Some([status |-> 400])
    /\ an_pc' = "error"
    /\ UNCHANGED <<an_req, an_original, an_idx, an_projected, an_impact, an_clock, an_last, an_others>>

\* Lines 707-719: the market impact of the first projected scenario.
AnImpact ==
    /\ an_pc = "loop"
    /\ an_idx > Len(an_req.new_scenarios)
    /\ Len(an_projected) > 0
    /\ an_impact' = Some(market_impact_of(an_original.v, an_projected[1]))
    /\ an_pc' = "return"
    /\ UNCHANGED <<an_req, an_original, an_idx, an_projected, an_response, an_clock, an_last, an_others>>

\* Line 708: with no scenario the market impact stays the empty dict.
AnNoImpact ==
    /\ an_pc = "loop"
    /\ an_idx > Len(an_req.new_scenarios)
    /\ Len(an_projected) = 0
    /\ an_pc' = "return"
    /\ UNCHANGED <<an_req, an_original, an_idx, an_projected, an_impact, an_response, an_clock, an_last, an_others>>

\* Lines 723-732: the response, with datetime.now() in its diagnostics.
AnReturn ==
    /\ an_pc = "return"
    /\ \E now \in an_clock..MaxClock :
          /\ an_clock' = now
          /\ an_response' = Some(
                [status |-> 200,
                 original_scenario |->
                    [shares |-> an_original.v,
                     total_share |-> float_sum(an_original.v, FloatZero)],
                 projected_scenarios |->
                    [k \in DOMAIN an_projected |->
                        [shares |-> an_projected[k],
                         total_share |-> float_sum(an_projected[k], FloatZero)]],
                 market_impact |-> an_impact,
                 diagnostics |->
                    [total_scenarios |-> Len(an_projected),
                     choice_rule |-> an_req.rule,
                     analysis_timestamp |-> now]])
    /\ an_pc' = "done"
    /\ UNCHANGED <<an_req, an_original, an_idx, an_projected, an_impact, an_last, an_others>>

\* The same request is posted once more.
AnSameRequest ==
    /\ an_pc \in {"done", "error"}
    /\ an_last = None
    /\ an_last' = Some([req |-> an_req, response |-> an_response.v])
    /\ an_original' = None
    /\ an_idx' = 0
    /\ an_projected' = <<>>
    /\ an_impact' = None
    /\ an_response' = None
    /\ an_pc' = "start"
    /\ UNCHANGED <<an_req, an_clock, an_others>>

\* Another request is posted: the same market under another rule.
AnOtherRequest ==
    /\ an_pc \in {"done", "error"}
    /\ an_req' \in {[an_req EXCEPT !.rule = r] : r \in Rules \ {an_req.rule}}
    /\ an_last' = None
    /\ an_original' = None
    /\ an_idx' = 0
    /\ an_projected' = <<>>
    /\ an_impact' = None
    /\ an_response' = None
    /\ an_pc' = "start"
    /\ UNCHANGED <<an_clock, an_others>>

NextAnalyze ==
    \/ AnNormalize
    \/ AnProject
    \/ AnUnknownRule
    \/ AnImpact
    \/ AnNoImpact
    \/ AnReturn
    \/ AnSameRequest
    \/ AnOtherRequest

SpecAnalyze == InitAnalyze /\ [][NextAnalyze]_vars

----------------------------------------------------------------------------
(* Claims about analyze_scenarios *)

\* The new-product scenarios of the request that omit or leave blank an
\* attribute of the utility table.
OmittingScenarios ==
    {k \in DOMAIN an_req.new_scenarios :
        missing(DOMAIN an_req.utilities, an_req.new_scenarios[k]) # {}}

\* C22: analyze_scenarios fails with a validation error and returns no
\* projection when a new-product scenario omits an attribute the utility table
\* defines: no share vector is projected for such a scenario, and the call
\* does not answer 200 when the request holds one.
C22_OmittedAttributeRejected ==
    /\ \A k \in DOMAIN an_projected : k \notin OmittingScenarios
    /\ an_response # None /\ an_response.v.status = 200 => OmittingScenarios = {}

\* C23: two calls of analyze_scenarios with equal requests return equal
\* responses, whatever calls ran before them.
C23_EqualRequestsEqualResponses ==
    an_last # None /\ an_response # None /\ an_last.v.req = an_req =>
        an_response.v = an_last.v.response

float_abs(x) == [x EXCEPT !.sign = 1]

\* k rounding units: k * 2^(-Precision), for k >= 1
units(k) == round_float(1, k, 0 - Precision, FALSE)

\* |x - y| <= k rounding units
close(x, y, k) == ~float_less(units(k), float_abs(float_sub(x, y)))

\* |x - y| <= k rounding units of |y|
rel_close(x, y, k) ==
    ~float_less(float_mul(units(k), float_abs(y)), float_abs(float_sub(x, y)))

\* The existing products of the request.
Existing == IF an_original = None THEN {} ELSE DOMAIN an_original.v

\* The shares projected under the rule "logit".
LogitProjected == IF an_req.rule = "logit" THEN DOMAIN an_projected ELSE {}

ImpactOfNonZeroSum ==
    an_impact # None /\ Total(an_req.original_market_shares).m # 0

====
